---- MODULE Spec2Model ----
(***************************************************************************)
(* Real-time fraud detection engine (src/src/realtime/fraud_detector.py):  *)
(* FeatureExtractor's per-user history windows, RealTimeFraudDetector's    *)
(* score-to-decision mapping, counters and latency buffer, and the         *)
(* AdaptiveThresholdManager.                                               *)
(*                                                                         *)
(* Probabilities and thresholds are fixed-point integers with 1.0 = Scale. *)
(* Timestamps are whole hours.                                             *)
(***************************************************************************)
EXTENDS Integers, Sequences, FiniteSets, TLC

VARIABLES
    high_risk_threshold,        \* RealTimeFraudDetector.high_risk_threshold
    medium_risk_threshold,      \* RealTimeFraudDetector.medium_risk_threshold
    user_transaction_history,   \* FeatureExtractor.user_transaction_history: user id -> deque
    total_transactions,         \* RealTimeFraudDetector.total_transactions
    total_fraud_detected,       \* RealTimeFraudDetector.total_fraud_detected
    processing_times,           \* RealTimeFraudDetector.processing_times (deque, maxlen 1000)
    threshold,                  \* AdaptiveThresholdManager.threshold
    feedback_history,           \* AdaptiveThresholdManager.feedback_history
    result,                     \* what the most recent detect_fraud call gave its caller
    call,                       \* the arguments and collaborator answers of that call
    calls,                      \* number of operations performed so far
    arrivals,                   \* history variable: every entry ever appended, per user
    deque_ids,                  \* threads only: which deque object each user id is bound to
    task,                       \* per-thread position and locals of an in-flight detect_fraud
    merchant_statistics,        \* FeatureExtractor.merchant_statistics: merchant id -> dict
    returned,                   \* what the most recent call of another method gave its caller
    now,                        \* datetime.now() at the most recent call that read the clock
    batch,                      \* the arguments of the most recent detect_fraud_batch call
    recorded,                   \* history variable: every processing time ever appended
    total_epsilon,              \* DifferentialPrivacyManager.total_epsilon
    consumed_epsilon,           \* DifferentialPrivacyManager.consumed_epsilon
    query_history,              \* DifferentialPrivacyManager.query_history
    users,                      \* AuthenticationManager.users: user id -> User
    max_failed_attempts,        \* AuthenticationManager.max_failed_attempts
    lockout_duration,           \* AuthenticationManager.lockout_duration, in minutes
    models,                     \* ModelRegistry.models: model key -> model
    active_model                \* ModelRegistry.active_model

vars == <<high_risk_threshold, medium_risk_threshold, user_transaction_history,
          total_transactions, total_fraud_detected, processing_times, threshold,
          feedback_history, result, call, calls, arrivals, deque_ids, task,
          merchant_statistics, returned, now, batch, recorded,
          total_epsilon, consumed_epsilon, query_history,
          users, max_failed_attempts, lockout_duration, models, active_model>>

\* the privacy manager, the authentication manager and the model registry
managers == <<total_epsilon, consumed_epsilon, query_history,
              users, max_failed_attempts, lockout_duration, models, active_model>>

engine == <<user_transaction_history, total_transactions, total_fraud_detected,
            processing_times>>

-----------------------------------------------------------------------------
(* Numbers *)

\* 1.0 in fixed point. np.linspace(0.1, 0.9, 50) is 0.1 + i * 0.8 / 49 =
\* (49 + 8 i) / 490, so every grid point is an integer at this scale.
Scale == 490

\* float('nan'): every ordered comparison with it is False.
NaN == 0 - 1000000

Ge(a, b) == a # NaN /\ b # NaN /\ a >= b

Lt(a, b) == a # NaN /\ b # NaN /\ a < b

DefaultHigh == 441      \* high_risk_threshold: float = 0.9

DefaultMedium == 245    \* medium_risk_threshold: float = 0.5

FailSafeScore == 245    \* fraud_score=0.5 of the except branch

HistoryMaxLen == 100    \* deque(maxlen=100)

TimesMaxLen == 1000     \* deque(maxlen=1000)

TopFactors == 5         \* list(top_features.items())[:5]

NoneTs == 0 - 1         \* a transaction whose timestamp is None

Abs(x) == IF x < 0 THEN 0 - x ELSE x

RECURSIVE Gcd(_, _)
Gcd(a, b) == IF b = 0 THEN a ELSE Gcd(b, a % b)

\* a fraction num/den, den > 0, in lowest terms
Frac(num, den) ==
    LET g == Gcd(Abs(num), den)
    IN  [num |-> num \div g, den |-> den \div g]

\* np.log1p(x) and np.sqrt(x) are kept as terms; a fraction under the root is the
\* exact square of the float the code holds
Log1p(x) == [log1p_of |-> x]

Sqrt(x) == [sqrt_of |-> x]

\* num / (den + 1e-10), kept as a term
EpsQuotient(num, den) == [num |-> num, den_plus_eps |-> den]

SentinelSeconds == 999999   \* 'time_since_last_transaction_seconds': 999999

OutlierSigmas == 3          \* abs(deviation) > 3

HourSeconds == 3600         \* timedelta(hours=1).total_seconds()

DayHours == 24              \* timedelta(days=1); 86400 seconds

-----------------------------------------------------------------------------
(* Bounds of the model *)

MaxCalls == 2           \* operations per behaviour of Spec

-----------------------------------------------------------------------------
(* Input sets *)

Users == {"u1", "u2"}

AllowedTypes == {"purchase", "withdrawal", "transfer", "payment"}

AllowedChannels == {"online", "mobile", "atm", "pos"}

\* constructor arguments <<high_risk_threshold, medium_risk_threshold>>: the
\* defaults, a raised medium threshold, a misordered pair, a pair outside [0,1]
ThresholdConfigs ==
    { <<DefaultHigh, DefaultMedium>>, <<DefaultHigh, 343>>,
      <<DefaultMedium, DefaultHigh>>, <<588, DefaultMedium>> }

\* what model.predict_proba(features_df) does: a probability (also one above
\* 1.0 and a NaN), an array without a [0, 1] element, an exception
ProbaResponses ==
    { [kind |-> "proba", value |-> v] : v \in {0, 245, 343, 441, Scale, 539, NaN} }
    \cup { [kind |-> "bad_shape", value |-> 0], [kind |-> "raises", value |-> 0] }

\* what model.explain_prediction(features_df, max_samples=1) does
ExplainResponses ==
    { [kind |-> "raises", top_features |-> <<>>],
      [kind |-> "empty", top_features |-> <<>>],
      [kind |-> "ok", top_features |-> <<"f1", "f2", "f3", "f4", "f5", "f6">>] }

\* reading model.version
VersionResponses == {"1.0.0", "raises"}

TransactionsOf(ids, user_ids, amounts, timestamps, types, channels) ==
    [ transaction_id : ids, user_id : user_ids, merchant_id : {"m1"},
      amount : amounts, timestamp : timestamps,
      transaction_type : types, channel : channels ]

\* well-formed transactions, and ones whose timestamp is None
Transactions ==
    TransactionsOf({"t1", "t2"}, Users, {50}, {NoneTs, 5}, {"purchase"}, {"online"})

-----------------------------------------------------------------------------
(* FeatureExtractor *)

Min(a, b) == IF a <= b THEN a ELSE b

\* a bounded buffer that refuses the new item when full, keeping the oldest
DequeAppend_KeepsOldest(d, x, n) ==
    IF Len(d) >= n THEN d ELSE Append(d, x)

\* deque(maxlen=n).append(x): x goes to the right end; a full deque drops its
\* leftmost item
DequeAppend(d, x, n) ==
    IF Len(d) >= n THEN Append(Tail(d), x) ELSE Append(d, x)

HistoryEntry(transaction) ==
    [ amount |-> transaction.amount,
      timestamp |-> transaction.timestamp,
      merchant_id |-> transaction.merchant_id ]

\* self.user_transaction_history.get(user_id, deque(maxlen=100))
HistoryOf(history, user_id) ==
    IF user_id \in DOMAIN history THEN history[user_id] ELSE <<>>

\* an update that starts the user's window afresh
update_history_Replaces(history, transaction) ==
    (transaction.user_id :> <<HistoryEntry(transaction)>>) @@ history

update_history(history, transaction) ==
    LET user_id == transaction.user_id
        created == IF user_id \in DOMAIN history
                   THEN history
                   ELSE history @@ (user_id :> <<>>)
    IN  [created EXCEPT ![user_id] =
            DequeAppend(@, HistoryEntry(transaction), HistoryMaxLen)]

\* extract_features raises when the transaction's timestamp carries no .hour
\* (_extract_temporal_features); it never writes to the extractor's tables.
extract_features_raises(transaction) == transaction.timestamp = NoneTs

RECURSIVE Sum(_)
Sum(xs) == IF xs = <<>> THEN 0 ELSE Head(xs) + Sum(Tail(xs))

SumSquares(xs) == Sum([i \in DOMAIN xs |-> xs[i] * xs[i]])

\* [t['amount'] for t in user_history]
Amounts(user_history) == [i \in DOMAIN user_history |-> user_history[i].amount]

\* np.mean(amounts), amounts not empty
Mean(xs) == Frac(Sum(xs), Len(xs))

\* np.std(amounts): the root of the population variance
Std(xs) ==
    LET n == Len(xs)
    IN  Sqrt(Frac(n * SumSquares(xs) - Sum(xs) * Sum(xs), n * n))

\* np.max(amounts), amounts not empty
MaxOf(xs) == CHOOSE x \in {xs[i] : i \in DOMAIN xs} : \A i \in DOMAIN xs : xs[i] <= x

\* 1 if a == b else 0, and int(condition)
Flag(condition) == IF condition THEN 1 ELSE 0

\* the Transaction objects of the model are built with the dataclass defaults
\* is_first_transaction=False and account_age_days=0
extract_transaction_features(txn) ==
    [ amount |-> txn.amount,
      amount_log |-> Log1p(txn.amount),
      transaction_type_purchase |-> Flag(txn.transaction_type = "purchase"),
      transaction_type_withdrawal |-> Flag(txn.transaction_type = "withdrawal"),
      transaction_type_transfer |-> Flag(txn.transaction_type = "transfer"),
      channel_online |-> Flag(txn.channel = "online"),
      channel_mobile |-> Flag(txn.channel = "mobile"),
      channel_atm |-> Flag(txn.channel = "atm"),
      channel_pos |-> Flag(txn.channel = "pos"),
      is_first_transaction |-> Flag(FALSE),
      account_age_days |-> 0,
      account_age_days_log |-> Log1p(0) ]

\* A timestamp is the number of whole hours since Monday 1 January 2024, 00:00,
\* and lies in that January.
extract_temporal_features(txn) ==
    LET hour == txn.timestamp % 24
        day_of_week == (txn.timestamp \div 24) % 7
    IN  [ hour |-> hour,
          day_of_week |-> day_of_week,
          is_weekend |-> Flag(day_of_week >= 5),
          is_night |-> Flag(hour < 6 \/ hour > 22),
          is_business_hours |-> Flag(9 <= hour /\ hour <= 17),
          month |-> 1,
          day_of_month |-> 1 + (txn.timestamp \div 24) ]

\* The literal 0 of the empty branch is written in the form the other branch
\* gives the same feature, so that equal numbers are equal values.
extract_user_features(history, txn) ==
    LET user_history == HistoryOf(history, txn.user_id)
        amounts == Amounts(user_history)
        recent_24h ==
            Amounts(SelectSeq(user_history,
                              LAMBDA t : (txn.timestamp - t.timestamp) * HourSeconds
                                            < DayHours * HourSeconds))
    IN  IF Len(user_history) = 0
        THEN [ user_transaction_count |-> 0,
               user_avg_amount |-> Frac(0, 1),
               user_std_amount |-> Sqrt(Frac(0, 1)),
               user_max_amount |-> 0,
               user_total_amount_24h |-> 0 ]
        ELSE [ user_transaction_count |-> Len(user_history),
               user_avg_amount |-> Mean(amounts),
               user_std_amount |-> Std(amounts),
               user_max_amount |-> MaxOf(amounts),
               user_total_amount_24h |-> Sum(recent_24h),
               user_transaction_count_24h |-> Len(recent_24h) ]

extract_merchant_features(stats, txn) ==
    LET merchant_stats ==
            IF txn.merchant_id \in DOMAIN stats THEN stats[txn.merchant_id] ELSE <<>>
        get(key) ==
            IF key \in DOMAIN merchant_stats THEN merchant_stats[key] ELSE 0
    IN  [ merchant_avg_amount |-> get("avg_amount"),
          merchant_transaction_count |-> get("count"),
          merchant_fraud_rate |-> get("fraud_rate") ]

extract_velocity_features(history, txn) ==
    LET user_history == HistoryOf(history, txn.user_id)
        last_timestamp == user_history[Len(user_history)].timestamp
        time_since_last == (txn.timestamp - last_timestamp) * HourSeconds
        count_since(ago) ==
            Cardinality({ i \in DOMAIN user_history :
                            user_history[i].timestamp > ago })
    IN  IF Len(user_history) < 2
        THEN [ time_since_last_transaction_seconds |-> SentinelSeconds,
               transactions_last_hour |-> 0,
               transactions_last_day |-> 0 ]
        ELSE [ time_since_last_transaction_seconds |-> time_since_last,
               time_since_last_transaction_minutes |-> Frac(time_since_last, 60),
               transactions_last_hour |-> count_since(txn.timestamp - 1),
               transactions_last_day |-> count_since(txn.timestamp - DayHours) ]

\* int(abs(deviation) > 3) for deviation = (amount - avg) / (std + 1e-10). With
\* std = 0 the quotient is beyond 3 whenever amount differs from avg; otherwise
\* the comparison is the one of the squares, both sides multiplied by n * n.
IsOutlier(amount, amounts) ==
    LET n == Len(amounts)
        distance == amount * n - Sum(amounts)
        spread == IF n > 1 THEN n * SumSquares(amounts) - Sum(amounts) * Sum(amounts)
                  ELSE 0
    IN  IF spread = 0
        THEN distance # 0
        ELSE distance * distance > OutlierSigmas * OutlierSigmas * spread

extract_anomaly_features(history, txn) ==
    LET user_history == HistoryOf(history, txn.user_id)
        amounts == Amounts(user_history)
        avg_amount == Mean(amounts)
        std_amount == IF Len(amounts) > 1 THEN Std(amounts) ELSE Sqrt(Frac(0, 1))
    IN  IF Len(user_history) = 0
        THEN [ amount_deviation_from_avg |->
                   EpsQuotient(Frac(0, 1), Sqrt(Frac(0, 1))),
               is_amount_outlier |-> 0 ]
        ELSE [ amount_deviation_from_avg |->
                   EpsQuotient(Frac(txn.amount * Len(amounts) - Sum(amounts),
                                    Len(amounts)),
                               std_amount),
               is_amount_outlier |-> Flag(IsOutlier(txn.amount, amounts)),
               amount_vs_avg_ratio |-> EpsQuotient(txn.amount, avg_amount) ]

\* the dict extract_features returns, for a transaction it does not raise on
extract_features(history, stats, txn) ==
    LET update(features, more) == more @@ features
    IN  update(update(update(update(update(
            extract_transaction_features(txn),
            extract_temporal_features(txn)),
            extract_user_features(history, txn)),
            extract_merchant_features(stats, txn)),
            extract_velocity_features(history, txn)),
            extract_anomaly_features(history, txn))

\* dict.setdefault(user_id, deque(maxlen=100)): a missing key is bound
AfterGet_SetDefault(history, user_id) ==
    IF user_id \in DOMAIN history THEN history ELSE history @@ (user_id :> <<>>)

\* the table after self.user_transaction_history.get(user_id, deque(maxlen=100)):
\* get returns the default without binding the key
AfterGet(history, user_id) == history

\* what a caller of extract_features gets when it raises
Raised == [ exception |-> "AttributeError" ]

-----------------------------------------------------------------------------
(* RealTimeFraudDetector.detect_fraud *)

IsFraud(fraud_score, medium) == Ge(fraud_score, medium)

RiskLevel(fraud_score, high, medium) ==
    IF Ge(fraud_score, high) THEN "high"
    ELSE IF Ge(fraud_score, medium) THEN "medium"
    ELSE "low"

\* the comparisons written with > in the place of >=
Decision_Exclusive(fraud_score, high, medium) ==
    IF fraud_score # NaN /\ fraud_score > high THEN "decline"
    ELSE IF fraud_score # NaN /\ fraud_score > medium THEN "review"
    ELSE "approve"

\* the first comparison turned round: decline below the high threshold
Decision_HighInverted(fraud_score, high, medium) ==
    IF fraud_score # NaN /\ fraud_score < high THEN "decline"
    ELSE IF Ge(fraud_score, medium) THEN "review"
    ELSE "approve"

Decision(fraud_score, high, medium) ==
    IF Ge(fraud_score, high) THEN "decline"
    ELSE IF Ge(fraud_score, medium) THEN "review"
    ELSE "approve"

\* the explanation's features without the [:5]
RiskFactors_Uncapped(explain) ==
    IF explain.kind = "ok" THEN explain.top_features ELSE <<>>

RiskFactors(explain) ==
    IF explain.kind = "ok"
    THEN SubSeq(explain.top_features, 1, Min(TopFactors, Len(explain.top_features)))
    ELSE <<>>

NoResult ==
    [ transaction_id |-> "", fraud_score |-> 0, is_fraud |-> FALSE,
      risk_level |-> "", decision |-> "", top_risk_factors |-> <<>>,
      model_version |-> "", processing_time_ms |-> 0, path |-> "none" ]

\* an except branch that lets the transaction through
FailSafeResult_Approves(transaction, elapsed) ==
    [ transaction_id |-> transaction.transaction_id,
      fraud_score |-> 0, is_fraud |-> FALSE,
      risk_level |-> "low", decision |-> "approve",
      top_risk_factors |-> <<>>, model_version |-> "",
      processing_time_ms |-> elapsed, path |-> "failsafe" ]

\* the FraudResult of the except branch
FailSafeResult(transaction, elapsed) ==
    [ transaction_id |-> transaction.transaction_id,
      fraud_score |-> FailSafeScore, is_fraud |-> TRUE,
      risk_level |-> "medium", decision |-> "review",
      top_risk_factors |-> <<>>, model_version |-> "",
      processing_time_ms |-> elapsed, path |-> "failsafe" ]

ScoredResult(transaction, fraud_score, high, medium, explain, version, elapsed) ==
    [ transaction_id |-> transaction.transaction_id,
      fraud_score |-> fraud_score,
      is_fraud |-> IsFraud(fraud_score, medium),
      risk_level |-> RiskLevel(fraud_score, high, medium),
      decision |-> Decision(fraud_score, high, medium),
      top_risk_factors |-> RiskFactors(explain),
      model_version |-> version,
      processing_time_ms |-> elapsed, path |-> "normal" ]

\* the statements of the try block up to the first one that can raise
ScoringFails(transaction, proba) ==
    \/ extract_features_raises(transaction)
    \/ proba.kind \in {"raises", "bad_shape"}

NoProba == [ kind |-> "none", value |-> 0 ]

NoTransaction ==
    [ transaction_id |-> "", user_id |-> "", merchant_id |-> "", amount |-> 0,
      timestamp |-> 0, transaction_type |-> "", channel |-> "" ]

NoCall == [ op |-> "none", transaction |-> NoTransaction, proba |-> NoProba ]

\* the attributes detect_fraud writes, with the histories kept beside them
EngineNow ==
    [ user_transaction_history |-> user_transaction_history,
      total_transactions |-> total_transactions,
      total_fraud_detected |-> total_fraud_detected,
      processing_times |-> processing_times,
      arrivals |-> arrivals,
      recorded |-> recorded ]

\* One whole call of detect_fraud on an engine in state st: the state it leaves
\* and, as `result`, the FraudResult its caller gets.
detect_fraud(st, high, medium, transaction, proba, explain, version, elapsed) ==
    IF ScoringFails(transaction, proba)
    THEN [ engine |-> st, result |-> FailSafeResult(transaction, elapsed) ]
    ELSE [ engine |->
             [ processing_times |->
                   DequeAppend(st.processing_times, elapsed, TimesMaxLen),
               recorded |-> Append(st.recorded, elapsed),
               total_transactions |-> st.total_transactions + 1,
               total_fraud_detected |->
                   IF IsFraud(proba.value, medium)
                   THEN st.total_fraud_detected + 1
                   ELSE st.total_fraud_detected,
               user_transaction_history |->
                   update_history(st.user_transaction_history, transaction),
               arrivals |-> [st.arrivals EXCEPT ![transaction.user_id] =
                                Append(@, HistoryEntry(transaction))] ],
           result |->
               IF version = "raises"
               THEN FailSafeResult(transaction, elapsed)
               ELSE ScoredResult(transaction, proba.value, high, medium, explain,
                                 version, elapsed) ]

\* a loop that stops at the first element whose result is the fail-safe one
RECURSIVE detect_fraud_batch_StopsAtFailure(_, _, _, _, _)
detect_fraud_batch_StopsAtFailure(st, high, medium, items, results) ==
    IF items = <<>>
    THEN [ engine |-> st, results |-> results ]
    ELSE LET item == Head(items)
             after == detect_fraud(st, high, medium, item.transaction, item.proba,
                                   item.explain, item.version, item.elapsed)
         IN  IF after.result.path = "failsafe"
             THEN [ engine |-> after.engine,
                    results |-> Append(results, after.result) ]
             ELSE detect_fraud_batch_StopsAtFailure(
                      after.engine, high, medium, Tail(items),
                      Append(results, after.result))

\* for transaction in transactions: results.append(await self.detect_fraud(...)).
\* Each item carries the transaction and what the model answers during its turn.
RECURSIVE detect_fraud_batch(_, _, _, _, _)
detect_fraud_batch(st, high, medium, items, results) ==
    IF items = <<>>
    THEN [ engine |-> st, results |-> results ]
    ELSE LET item == Head(items)
             after == detect_fraud(st, high, medium, item.transaction, item.proba,
                                   item.explain, item.version, item.elapsed)
         IN  detect_fraud_batch(after.engine, high, medium, Tail(items),
                                Append(results, after.result))

DetectFraud(transaction, proba, explain, version, elapsed) ==
    LET after == detect_fraud(EngineNow, high_risk_threshold, medium_risk_threshold,
                              transaction, proba, explain, version, elapsed)
    IN  /\ calls' = calls + 1
        /\ call' = [ op |-> "detect_fraud", transaction |-> transaction,
                     proba |-> proba, explain |-> explain, version |-> version ]
        /\ processing_times' = after.engine.processing_times
        /\ recorded' = after.engine.recorded
        /\ total_transactions' = after.engine.total_transactions
        /\ total_fraud_detected' = after.engine.total_fraud_detected
        /\ user_transaction_history' = after.engine.user_transaction_history
        /\ arrivals' = after.engine.arrivals
        /\ result' = after.result
        /\ UNCHANGED <<managers, merchant_statistics, returned, now, batch,
                       high_risk_threshold, medium_risk_threshold, threshold,
                       feedback_history, deque_ids, task>>

\* detect_fraud_batch(transactions) on the engine
DetectFraudBatch(items) ==
    LET after == detect_fraud_batch(EngineNow, high_risk_threshold,
                                    medium_risk_threshold, items, <<>>)
    IN  /\ calls' = calls + 1
        /\ call' = [ op |-> "detect_fraud_batch", transaction |-> NoTransaction,
                     proba |-> NoProba ]
        /\ batch' = [ before |-> EngineNow, items |-> items ]
        /\ returned' = after.results
        /\ processing_times' = after.engine.processing_times
        /\ recorded' = after.engine.recorded
        /\ total_transactions' = after.engine.total_transactions
        /\ total_fraud_detected' = after.engine.total_fraud_detected
        /\ user_transaction_history' = after.engine.user_transaction_history
        /\ arrivals' = after.engine.arrivals
        /\ UNCHANGED <<managers, merchant_statistics, now, result,
                       high_risk_threshold, medium_risk_threshold, threshold,
                       feedback_history, deque_ids, task>>

\* a no-sample test that looks at the fraud counter
get_performance_metrics_TestsFraudCount(st) ==
    IF st.total_fraud_detected = 0
    THEN [ total_transactions |-> st.total_transactions,
           total_fraud_detected |-> st.total_fraud_detected,
           fraud_rate |-> Frac(0, 1) ]
    ELSE LET np(aggregate) ==
                 [ np |-> aggregate, processing_times |-> st.processing_times ]
         IN  [ total_transactions |-> st.total_transactions,
               total_fraud_detected |-> st.total_fraud_detected,
               fraud_rate |-> Frac(st.total_fraud_detected,
                                   IF st.total_transactions > 1
                                   THEN st.total_transactions ELSE 1),
               avg_processing_time_ms |-> np("mean"),
               p50_processing_time_ms |-> np("percentile 50"),
               p95_processing_time_ms |-> np("percentile 95"),
               p99_processing_time_ms |-> np("percentile 99"),
               max_processing_time_ms |-> np("max"),
               min_processing_time_ms |-> np("min") ]

\* get_performance_metrics on an engine in state st. The six latency
\* statistics are numpy's, kept as terms over the buffer they are taken of.
get_performance_metrics(st) ==
    IF st.processing_times = <<>>
    THEN [ total_transactions |-> st.total_transactions,
           total_fraud_detected |-> st.total_fraud_detected,
           fraud_rate |-> Frac(0, 1) ]
    ELSE LET np(aggregate) ==
                 [ np |-> aggregate, processing_times |-> st.processing_times ]
         IN  [ total_transactions |-> st.total_transactions,
               total_fraud_detected |-> st.total_fraud_detected,
               fraud_rate |-> Frac(st.total_fraud_detected,
                                   IF st.total_transactions > 1
                                   THEN st.total_transactions ELSE 1),
               avg_processing_time_ms |-> np("mean"),
               p50_processing_time_ms |-> np("percentile 50"),
               p95_processing_time_ms |-> np("percentile 95"),
               p99_processing_time_ms |-> np("percentile 99"),
               max_processing_time_ms |-> np("max"),
               min_processing_time_ms |-> np("min") ]

\* a read of the metrics; it is not counted among the operations
GetPerformanceMetrics ==
    /\ call' = [ op |-> "get_performance_metrics" ]
    /\ returned' = get_performance_metrics(EngineNow)
    /\ UNCHANGED <<managers, merchant_statistics, now, batch,
                   recorded, calls, high_risk_threshold, medium_risk_threshold,
                   user_transaction_history, total_transactions,
                   total_fraud_detected, processing_times, threshold,
                   feedback_history, result, arrivals, deque_ids, task>>

\* FeatureExtractor.extract_features called directly, the wall clock showing
\* `clock`
ExtractFeatures(transaction, clock) ==
    /\ calls' = calls + 1
    /\ call' = [ op |-> "extract_features", transaction |-> transaction,
                 proba |-> NoProba ]
    /\ now' = clock
    /\ returned' =
           IF extract_features_raises(transaction)
           THEN Raised
           ELSE extract_features(user_transaction_history, merchant_statistics,
                                 transaction)
    /\ user_transaction_history' =
           AfterGet(user_transaction_history, transaction.user_id)
    /\ UNCHANGED <<managers, merchant_statistics, batch, recorded,
                   high_risk_threshold, medium_risk_threshold, total_transactions,
                   total_fraud_detected, processing_times, threshold,
                   feedback_history, result, arrivals, deque_ids, task>>

\* FeatureExtractor.update_history called directly
UpdateHistory(transaction) ==
    /\ calls' = calls + 1
    /\ call' = [ op |-> "update_history", transaction |-> transaction,
                 proba |-> NoProba ]
    /\ user_transaction_history' = update_history(user_transaction_history, transaction)
    /\ arrivals' = [arrivals EXCEPT ![transaction.user_id] =
                       Append(@, HistoryEntry(transaction))]
    /\ UNCHANGED <<managers, merchant_statistics, returned, now, batch, recorded,
                   high_risk_threshold, medium_risk_threshold, total_transactions,
                   total_fraud_detected, processing_times, threshold,
                   feedback_history, result, deque_ids, task>>

-----------------------------------------------------------------------------
(* The objects next to the engine, as their constructors leave them *)

DefaultTotalEpsilon == 10       \* total_epsilon: float = 1.0, in tenths

DefaultMaxFailedAttempts == 5   \* max_failed_attempts: int = 5

DefaultLockoutMinutes == 30     \* lockout_duration_minutes: int = 30

None == "None"

\* DifferentialPrivacyManager(total_epsilon=total)
NewPrivacyManager(total) ==
    [ total_epsilon |-> total, consumed_epsilon |-> 0, query_history |-> <<>> ]

InitManagers ==
    /\ total_epsilon = DefaultTotalEpsilon
    /\ consumed_epsilon = 0
    /\ query_history = <<>>
    /\ users = <<>>
    /\ max_failed_attempts = DefaultMaxFailedAttempts
    /\ lockout_duration = DefaultLockoutMinutes
    /\ models = <<>>
    /\ active_model = None

-----------------------------------------------------------------------------
(* Sequential use of one engine, any constructor arguments *)

InitEngine ==
    /\ InitManagers
    /\ user_transaction_history = <<>>
    /\ total_transactions = 0
    /\ total_fraud_detected = 0
    /\ processing_times = <<>>
    /\ result = NoResult
    /\ call = NoCall
    /\ calls = 0
    /\ arrivals = [u \in Users |-> <<>>]
    /\ deque_ids = <<>>
    /\ task = <<>>
    /\ merchant_statistics = <<>>
    /\ returned = <<>>
    /\ now = 0
    /\ batch = <<>>
    /\ recorded = <<>>

Init ==
    /\ \E cfg \in ThresholdConfigs :
          /\ high_risk_threshold = cfg[1]
          /\ medium_risk_threshold = cfg[2]
    /\ threshold = DefaultMedium
    /\ feedback_history = <<>>
    /\ InitEngine

DetectFraudCall ==
    /\ calls < MaxCalls
    /\ \E transaction \in Transactions, proba \in ProbaResponses,
          explain \in ExplainResponses, version \in VersionResponses :
            DetectFraud(transaction, proba, explain, version, 1)

UpdateHistoryCall ==
    /\ calls < MaxCalls
    /\ \E transaction \in Transactions : UpdateHistory(transaction)

Next == DetectFraudCall \/ UpdateHistoryCall

Spec == Init /\ [][Next]_vars

-----------------------------------------------------------------------------
(* Claims about one call of detect_fraud *)

\* the call that `result` answers ran the try block to its end
ReturnedScored == call.op = "detect_fraud" /\ result.path = "normal"

\* the call that `result` answers failed in feature extraction or in predict_proba
ScoringFailed ==
    /\ call.op = "detect_fraud"
    /\ \/ call.transaction.timestamp = NoneTs
       \/ call.proba.kind \in {"raises", "bad_shape"}

\* C1: with medium_risk_threshold <= high_risk_threshold, a call that returns the
\* scored result for score s gives (high, decline) when s >= high, (medium, review)
\* when medium <= s < high, and (low, approve) when s < medium.
C1_ScoreMapsToDecision ==
    (ReturnedScored /\ medium_risk_threshold <= high_risk_threshold) =>
        LET s == call.proba.value
        IN  /\ Ge(s, high_risk_threshold) =>
                (result.risk_level = "high" /\ result.decision = "decline")
            /\ (Ge(s, medium_risk_threshold) /\ Lt(s, high_risk_threshold)) =>
                (result.risk_level = "medium" /\ result.decision = "review")
            /\ Lt(s, medium_risk_threshold) =>
                (result.risk_level = "low" /\ result.decision = "approve")

\* a score exactly on the medium threshold was reviewed, under ordered thresholds
C1_Witness ==
    /\ ReturnedScored
    /\ medium_risk_threshold < high_risk_threshold
    /\ call.proba.value = medium_risk_threshold
    /\ result.decision = "review"

\* C2: when feature extraction or predict_proba fails, detect_fraud still returns
\* a FraudResult, for the same transaction id, with fraud_score 0.5, risk medium
\* and decision review (never approve, never nothing).
C2_FailSafeOnFailure ==
    ScoringFailed =>
        /\ result.path = "failsafe"
        /\ result.transaction_id = call.transaction.transaction_id
        /\ result.fraud_score = FailSafeScore
        /\ result.risk_level = "medium"
        /\ result.decision = "review"

\* predict_proba raised for transaction t2 and the caller got the review result
C2_Witness ==
    /\ call.op = "detect_fraud"
    /\ call.proba.kind = "raises"
    /\ call.transaction.transaction_id = "t2"
    /\ call.transaction.timestamp # NoneTs
    /\ result.decision = "review"
    /\ result.transaction_id = "t2"

\* C3 as stated: in every returned FraudResult, on the normal and on the fail-safe
\* path, is_fraud is true exactly when fraud_score >= medium_risk_threshold and
\* exactly when decision is not approve. Asked here only of engines whose
\* thresholds satisfy 0 <= medium <= high <= 1.
C3_IsFraudIffAtLeastMedium ==
    (/\ call.op = "detect_fraud"
     /\ 0 <= medium_risk_threshold
     /\ medium_risk_threshold <= high_risk_threshold
     /\ high_risk_threshold <= Scale) =>
        /\ result.is_fraud <=> Ge(result.fraud_score, medium_risk_threshold)
        /\ result.is_fraud <=> (result.decision # "approve")

\* C9 as stated: the thresholds always satisfy 0 <= medium <= high <= 1.
C9_ThresholdsOrdered ==
    /\ 0 <= medium_risk_threshold
    /\ medium_risk_threshold <= high_risk_threshold
    /\ high_risk_threshold <= Scale

\* C10 as stated: every returned FraudResult has fraud_score within [0,1], and a
\* scorer answer that is no probability (outside [0,1], NaN, wrong shape) gives
\* the fail-safe result, never approve.
C10_ScoreWithinUnitInterval ==
    (call.op = "detect_fraud") =>
        /\ Ge(result.fraud_score, 0) /\ Ge(Scale, result.fraud_score)
        /\ (~(Ge(call.proba.value, 0) /\ Ge(Scale, call.proba.value))
               \/ call.proba.kind = "bad_shape") =>
              (result.path = "failsafe" /\ result.decision = "review")

-----------------------------------------------------------------------------
(* Malformed transactions *)

Malformed(transaction) ==
    \/ transaction.amount <= 0
    \/ transaction.transaction_type \notin AllowedTypes
    \/ transaction.channel \notin AllowedChannels

\* transactions with a negative, a zero and a positive amount, a known and an
\* unknown type, a known and an unknown channel
InputTransactions ==
    TransactionsOf({"t1"}, Users, {0 - 50, 0, 50}, {5},
                   {"purchase", "refund"}, {"online", "fax"})

InputProbaResponses ==
    { [kind |-> "proba", value |-> 0], [kind |-> "proba", value |-> DefaultHigh],
      [kind |-> "raises", value |-> 0] }

DetectFraudInput ==
    /\ calls < MaxCalls
    /\ \E transaction \in InputTransactions, proba \in InputProbaResponses :
          DetectFraud(transaction, proba, [kind |-> "empty", top_features |-> <<>>],
                      "1.0.0", 1)

UpdateHistoryInput ==
    /\ calls < MaxCalls
    /\ \E transaction \in InputTransactions : UpdateHistory(transaction)

InitDefault ==
    /\ high_risk_threshold = DefaultHigh
    /\ medium_risk_threshold = DefaultMedium
    /\ threshold = DefaultMedium
    /\ feedback_history = <<>>
    /\ InitEngine

NextInput == DetectFraudInput \/ UpdateHistoryInput

SpecInput == InitDefault /\ [][NextInput]_vars

\* C6 as stated: a detect_fraud call with a malformed transaction (amount <= 0, or
\* a type or channel outside the allowed values) is rejected with a validation
\* error and changes no window, counter or latency sample.
C6_MalformedRejected ==
    [][ (/\ calls' = calls + 1
         /\ call'.op = "detect_fraud"
         /\ Malformed(call'.transaction)) =>
            (result'.path = "rejected" /\ UNCHANGED engine) ]_vars

-----------------------------------------------------------------------------
(* Long runs against one window *)

WindowRun == 102        \* operations per behaviour of SpecWindow

WindowDetects == 2      \* of which calls of detect_fraud

\* The k-th transaction submitted for a user (k counted from 0). Amounts are all
\* different, so an entry names its arrival; timestamps go up and down.
StreamTransaction(user_id, k) ==
    [ transaction_id |-> "t1", user_id |-> user_id, merchant_id |-> "m1",
      amount |-> 10 + k, timestamp |-> (k * 37) % 101,
      transaction_type |-> "purchase", channel |-> "online" ]

UpdateHistoryWindow ==
    /\ calls < WindowRun
    /\ \E u \in Users : UpdateHistory(StreamTransaction(u, Len(arrivals[u])))

DetectFraudWindow ==
    /\ calls < WindowRun
    /\ total_transactions < WindowDetects
    /\ \E u \in Users :
          DetectFraud(StreamTransaction(u, Len(arrivals[u])),
                      [kind |-> "proba", value |-> 0],
                      [kind |-> "empty", top_features |-> <<>>], "1.0.0", 1)

NextWindow == UpdateHistoryWindow \/ DetectFraudWindow

SpecWindow == InitDefault /\ [][NextWindow]_vars

\* C4: every user's window holds at most 100 entries, and they are the most
\* recently appended ones in the order they arrived: appending to a full window
\* drops exactly the oldest entry, and nothing is re-sorted by timestamp.
C4_WindowBoundedFifo ==
    \A u \in DOMAIN user_transaction_history :
        LET window == user_transaction_history[u]
            n == Len(arrivals[u])
        IN  /\ Len(window) <= 100
            /\ Len(window) = Min(100, n)
            /\ \A i \in 1 .. Len(window) :
                   window[i] = arrivals[u][n - Len(window) + i]

\* a user with 101 insertions: the first is gone, the second is now the oldest,
\* and the window is not in timestamp order
C4_Witness ==
    \E u \in DOMAIN user_transaction_history :
        LET window == user_transaction_history[u]
        IN  /\ Len(arrivals[u]) = 101
            /\ Len(window) = 100
            /\ window[1] = arrivals[u][2]
            /\ window[100] = arrivals[u][101]
            /\ \A i \in 1 .. 100 : window[i] # arrivals[u][1]
            /\ window[2].timestamp > window[3].timestamp

-----------------------------------------------------------------------------
(* detect_fraud called from several threads on one engine.                  *)
(* The method takes no lock and holds no await, so between two of its       *)
(* attribute reads, attribute writes and container calls another thread's   *)
(* call may run. Each step below is one such read, write or call.           *)

ThreadCount == 2        \* concurrent calls of detect_fraud

Tasks == 1 .. ThreadCount

ThreadTransactions ==
    TransactionsOf({"t1"}, Users, {50}, {5}, {"purchase"}, {"online"})

\* predict_proba may also never return
ThreadProbaResponses ==
    { [kind |-> "proba", value |-> 0], [kind |-> "proba", value |-> DefaultHigh],
      [kind |-> "raises", value |-> 0], [kind |-> "blocks", value |-> 0] }

IdleTask ==
    [ pc |-> "idle", transaction |-> NoTransaction, proba |-> NoProba,
      is_fraud |-> FALSE, loaded |-> 0, ref |-> 0, path |-> "none",
      window |-> <<>>, user_features |-> <<>>, velocity_features |-> <<>>,
      anomaly_features |-> <<>> ]

Goto(t, pc) == task' = [task EXCEPT ![t].pc = pc]

\* the caller invokes detect_fraud; `window` keeps the user's window of that
\* moment. The transaction and temporal features read no table.
T_Call(t) ==
    /\ task[t].pc = "idle"
    /\ \E transaction \in ThreadTransactions, proba \in ThreadProbaResponses :
          task' = [task EXCEPT ![t] =
                      [@ EXCEPT !.pc = IF extract_features_raises(transaction)
                                       THEN "except" ELSE "user_features",
                                !.transaction = transaction,
                                !.proba = proba,
                                !.window = HistoryOf(user_transaction_history,
                                                     transaction.user_id)]]
    /\ UNCHANGED <<managers, merchant_statistics, returned, now, batch, recorded,
                   high_risk_threshold, medium_risk_threshold, engine, threshold,
                   feedback_history, result, call, calls, arrivals, deque_ids>>

\* features.update(self._extract_user_features(transaction)): the first of three
\* separate reads of self.user_transaction_history
T_UserFeatures(t) ==
    /\ task[t].pc = "user_features"
    /\ task' = [task EXCEPT ![t] =
                  [@ EXCEPT !.pc = "velocity_features",
                            !.user_features =
                                extract_user_features(user_transaction_history,
                                                      task[t].transaction)]]
    /\ UNCHANGED <<managers, merchant_statistics, returned, now, batch, recorded,
                   high_risk_threshold, medium_risk_threshold, engine, threshold,
                   feedback_history, result, call, calls, arrivals, deque_ids>>

\* features.update(self._extract_velocity_features(transaction)): the second read
T_VelocityFeatures(t) ==
    /\ task[t].pc = "velocity_features"
    /\ task' = [task EXCEPT ![t] =
                  [@ EXCEPT !.pc = "anomaly_features",
                            !.velocity_features =
                                extract_velocity_features(user_transaction_history,
                                                          task[t].transaction)]]
    /\ UNCHANGED <<managers, merchant_statistics, returned, now, batch, recorded,
                   high_risk_threshold, medium_risk_threshold, engine, threshold,
                   feedback_history, result, call, calls, arrivals, deque_ids>>

\* features.update(self._extract_anomaly_features(transaction)): the third read
T_AnomalyFeatures(t) ==
    /\ task[t].pc = "anomaly_features"
    /\ task' = [task EXCEPT ![t] =
                  [@ EXCEPT !.pc = "predict_proba",
                            !.anomaly_features =
                                extract_anomaly_features(user_transaction_history,
                                                         task[t].transaction)]]
    /\ UNCHANGED <<managers, merchant_statistics, returned, now, batch, recorded,
                   high_risk_threshold, medium_risk_threshold, engine, threshold,
                   feedback_history, result, call, calls, arrivals, deque_ids>>

\* fraud_score = float(self.model.predict_proba(features_df)[0, 1]) returns or
\* raises; a call that blocks takes no step
T_PredictProba(t) ==
    /\ task[t].pc = "predict_proba"
    /\ task[t].proba.kind # "blocks"
    /\ task' = [task EXCEPT ![t] =
                  [@ EXCEPT !.pc = IF task[t].proba.kind = "proba"
                                   THEN "append_time" ELSE "except",
                            !.is_fraud = IsFraud(task[t].proba.value,
                                                 medium_risk_threshold)]]
    /\ UNCHANGED <<managers, merchant_statistics, returned, now, batch, recorded,
                   high_risk_threshold, medium_risk_threshold, engine, threshold,
                   feedback_history, result, call, calls, arrivals, deque_ids>>

\* self.processing_times.append(processing_time)
T_AppendTime(t) ==
    /\ task[t].pc = "append_time"
    /\ processing_times' = DequeAppend(processing_times, 1, TimesMaxLen)
    /\ recorded' = Append(recorded, 1)
    /\ Goto(t, "load_total")
    /\ UNCHANGED <<managers, merchant_statistics, returned, now, batch,
                   high_risk_threshold, medium_risk_threshold,
                   user_transaction_history, total_transactions,
                   total_fraud_detected, threshold, feedback_history, result, call,
                   calls, arrivals, deque_ids>>

\* self.total_transactions += 1: the read
T_LoadTotal(t) ==
    /\ task[t].pc = "load_total"
    /\ task' = [task EXCEPT ![t] =
                  [@ EXCEPT !.pc = "store_total", !.loaded = total_transactions]]
    /\ UNCHANGED <<managers, merchant_statistics, returned, now, batch, recorded,
                   high_risk_threshold, medium_risk_threshold, engine, threshold,
                   feedback_history, result, call, calls, arrivals, deque_ids>>

\* self.total_transactions += 1: the write
T_StoreTotal(t) ==
    /\ task[t].pc = "store_total"
    /\ total_transactions' = task[t].loaded + 1
    /\ Goto(t, IF task[t].is_fraud THEN "load_fraud" ELSE "history_check")
    /\ UNCHANGED <<managers, merchant_statistics, returned, now, batch, recorded,
                   high_risk_threshold, medium_risk_threshold,
                   user_transaction_history, total_fraud_detected, processing_times,
                   threshold, feedback_history, result, call, calls, arrivals,
                   deque_ids>>

\* self.total_fraud_detected += 1: the read
T_LoadFraud(t) ==
    /\ task[t].pc = "load_fraud"
    /\ task' = [task EXCEPT ![t] =
                  [@ EXCEPT !.pc = "store_fraud", !.loaded = total_fraud_detected]]
    /\ UNCHANGED <<managers, merchant_statistics, returned, now, batch, recorded,
                   high_risk_threshold, medium_risk_threshold, engine, threshold,
                   feedback_history, result, call, calls, arrivals, deque_ids>>

\* self.total_fraud_detected += 1: the write
T_StoreFraud(t) ==
    /\ task[t].pc = "store_fraud"
    /\ total_fraud_detected' = task[t].loaded + 1
    /\ Goto(t, "history_check")
    /\ UNCHANGED <<managers, merchant_statistics, returned, now, batch, recorded,
                   high_risk_threshold, medium_risk_threshold,
                   user_transaction_history, total_transactions, processing_times,
                   threshold, feedback_history, result, call, calls, arrivals,
                   deque_ids>>

\* update_history: if user_id not in self.user_transaction_history
T_HistoryCheck(t) ==
    /\ task[t].pc = "history_check"
    /\ Goto(t, IF task[t].transaction.user_id \in DOMAIN user_transaction_history
               THEN "history_lookup" ELSE "history_create")
    /\ UNCHANGED <<managers, merchant_statistics, returned, now, batch, recorded,
                   high_risk_threshold, medium_risk_threshold, engine, threshold,
                   feedback_history, result, call, calls, arrivals, deque_ids>>

\* update_history: self.user_transaction_history[user_id] = deque(maxlen=100),
\* a new empty deque, whatever the key was bound to
T_HistoryCreate(t) ==
    /\ task[t].pc = "history_create"
    /\ LET user_id == task[t].transaction.user_id
       IN  /\ user_transaction_history' =
                  [u \in DOMAIN user_transaction_history \cup {user_id} |->
                      IF u = user_id THEN <<>> ELSE user_transaction_history[u]]
           /\ deque_ids' =
                  [u \in DOMAIN deque_ids \cup {user_id} |->
                      IF u = user_id THEN t ELSE deque_ids[u]]
    /\ Goto(t, "history_lookup")
    /\ UNCHANGED <<managers, merchant_statistics, returned, now, batch, recorded,
                   high_risk_threshold, medium_risk_threshold, total_transactions,
                   total_fraud_detected, processing_times, threshold,
                   feedback_history, result, call, calls, arrivals>>

\* update_history: self.user_transaction_history[user_id] evaluated, giving the
\* deque object the key is bound to now
T_HistoryLookup(t) ==
    /\ task[t].pc = "history_lookup"
    /\ task' = [task EXCEPT ![t] =
                  [@ EXCEPT !.pc = "history_append",
                            !.ref = deque_ids[task[t].transaction.user_id]]]
    /\ UNCHANGED <<managers, merchant_statistics, returned, now, batch, recorded,
                   high_risk_threshold, medium_risk_threshold, engine, threshold,
                   feedback_history, result, call, calls, arrivals, deque_ids>>

\* update_history: .append({...}) on that object; an object the key is no longer
\* bound to is unreachable, and so is what is appended to it
T_HistoryAppend(t) ==
    /\ task[t].pc = "history_append"
    /\ LET user_id == task[t].transaction.user_id
           entry == HistoryEntry(task[t].transaction)
       IN  /\ user_transaction_history' =
                  IF deque_ids[user_id] = task[t].ref
                  THEN [user_transaction_history EXCEPT ![user_id] =
                           DequeAppend(@, entry, HistoryMaxLen)]
                  ELSE user_transaction_history
           /\ arrivals' = [arrivals EXCEPT ![user_id] = Append(@, entry)]
    /\ Goto(t, "return")
    /\ UNCHANGED <<managers, merchant_statistics, returned, now, batch, recorded,
                   high_risk_threshold, medium_risk_threshold, total_transactions,
                   total_fraud_detected, processing_times, threshold,
                   feedback_history, result, call, calls, deque_ids>>

\* result = FraudResult(...); return result
T_Return(t) ==
    /\ task[t].pc = "return"
    /\ task' = [task EXCEPT ![t] = [@ EXCEPT !.pc = "done", !.path = "normal"]]
    /\ result' = ScoredResult(task[t].transaction, task[t].proba.value,
                              high_risk_threshold, medium_risk_threshold,
                              [kind |-> "empty", top_features |-> <<>>], "1.0.0", 1)
    /\ call' = [ op |-> "detect_fraud", transaction |-> task[t].transaction,
                 proba |-> task[t].proba ]
    /\ calls' = calls + 1
    /\ UNCHANGED <<managers, merchant_statistics, returned, now, batch, recorded,
                   high_risk_threshold, medium_risk_threshold, engine, threshold,
                   feedback_history, arrivals, deque_ids>>

\* except Exception: return FraudResult(fraud_score=0.5, ...)
T_Except(t) ==
    /\ task[t].pc = "except"
    /\ task' = [task EXCEPT ![t] = [@ EXCEPT !.pc = "done", !.path = "failsafe"]]
    /\ result' = FailSafeResult(task[t].transaction, 1)
    /\ call' = [ op |-> "detect_fraud", transaction |-> task[t].transaction,
                 proba |-> task[t].proba ]
    /\ calls' = calls + 1
    /\ UNCHANGED <<managers, merchant_statistics, returned, now, batch, recorded,
                   high_risk_threshold, medium_risk_threshold, engine, threshold,
                   feedback_history, arrivals, deque_ids>>

InitThreads ==
    /\ high_risk_threshold = DefaultHigh
    /\ medium_risk_threshold = DefaultMedium
    /\ threshold = DefaultMedium
    /\ feedback_history = <<>>
    /\ user_transaction_history = <<>>
    /\ total_transactions = 0
    /\ total_fraud_detected = 0
    /\ processing_times = <<>>
    /\ result = NoResult
    /\ call = NoCall
    /\ calls = 0
    /\ arrivals = [u \in Users |-> <<>>]
    /\ deque_ids = <<>>
    /\ task = [t \in Tasks |-> IdleTask]
    /\ InitManagers
    /\ merchant_statistics = <<>>
    /\ returned = <<>>
    /\ now = 0
    /\ batch = <<>>
    /\ recorded = <<>>

NextThreads ==
    \E t \in Tasks :
        \/ T_Call(t)
        \/ T_UserFeatures(t)
        \/ T_VelocityFeatures(t)
        \/ T_AnomalyFeatures(t)
        \/ T_PredictProba(t)
        \/ T_AppendTime(t)
        \/ T_LoadTotal(t)
        \/ T_StoreTotal(t)
        \/ T_LoadFraud(t)
        \/ T_StoreFraud(t)
        \/ T_HistoryCheck(t)
        \/ T_HistoryCreate(t)
        \/ T_HistoryLookup(t)
        \/ T_HistoryAppend(t)
        \/ T_Return(t)
        \/ T_Except(t)

\* every thread that can take a step is eventually scheduled
SpecThreads == InitThreads /\ [][NextThreads]_vars /\ WF_vars(NextThreads)

AllReturnedScored ==
    \A t \in Tasks : task[t].pc = "done" /\ task[t].path = "normal"

SubmittedFor(u) == Cardinality({t \in Tasks : task[t].transaction.user_id = u})

\* C5 as stated: once N concurrent calls have all completed, each user's window
\* holds min(100, number submitted for that user) entries and total_transactions
\* is N: no append, no window creation and no increment is lost.
C5_NoLostUpdates ==
    AllReturnedScored =>
        /\ total_transactions = ThreadCount
        /\ \A u \in Users :
              Len(HistoryOf(user_transaction_history, u)) = Min(100, SubmittedFor(u))

\* C7 as stated: a call whose scorer does not return in time (or ever) still
\* eventually returns to its caller.
C7_ReturnsDespiteBlockedScorer ==
    \A t \in Tasks : (task[t].pc = "predict_proba") ~> (task[t].pc = "done")

\* C15 as stated: within one detect_fraud call the features are computed from
\* the user's window as it stood when the call started, the transaction being
\* appended only afterwards, so that it never counts itself; under sequential
\* calls and under any interleaving with other calls for the same user.
C15_FeaturesFromWindowAtCallStart ==
    \A t \in Tasks :
        (task[t].pc = "done" /\ task[t].path = "normal") =>
            LET txn == task[t].transaction
                at_start == (txn.user_id :> task[t].window)
                same(f, g) == DOMAIN f = DOMAIN g /\ \A k \in DOMAIN f : f[k] = g[k]
            IN  /\ same(task[t].user_features, extract_user_features(at_start, txn))
                /\ same(task[t].velocity_features,
                        extract_velocity_features(at_start, txn))
                /\ same(task[t].anomaly_features,
                        extract_anomaly_features(at_start, txn))

-----------------------------------------------------------------------------
(* AdaptiveThresholdManager *)

MinFeedback == 100      \* if len(self.feedback_history) < 100

RecentFeedback == 1000  \* self.feedback_history[-1000:]

GridPoints == 50        \* np.linspace(0.1, 0.9, 50)

GridFirst == 49         \* 0.1

GridStep == 8           \* 0.8 / 49

TargetPrecisionNum == 19    \* target_precision: float = 0.95 = 19/20

TargetPrecisionDen == 20

TargetRecallNum == 9        \* target_recall: float = 0.90 = 9/10

TargetRecallDen == 10

GridPoint(i) == GridFirst + GridStep * i

AddFrac(x, y) == Frac(x.num * y.den + y.num * x.den, x.den * y.den)

\* a/b < c/d for a, c >= 0 and b, d > 0, by continued fractions (no products)
RECURSIVE LessFracNonNeg(_, _, _, _)
LessFracNonNeg(a, b, c, d) ==
    LET qa == a \div b
        qc == c \div d
        ra == a % b
        rc == c % d
    IN  IF qa # qc THEN qa < qc
        ELSE IF rc = 0 THEN FALSE
        ELSE IF ra = 0 THEN TRUE
        ELSE LessFracNonNeg(d, rc, b, ra)

LessFrac(x, y) ==
    IF x.num < 0 /\ y.num >= 0 THEN TRUE
    ELSE IF x.num >= 0 /\ y.num < 0 THEN FALSE
    ELSE IF x.num >= 0 THEN LessFracNonNeg(x.num, x.den, y.num, y.den)
    ELSE LessFracNonNeg(0 - y.num, y.den, 0 - x.num, x.den)

\* self.feedback_history.append({...})
add_feedback(history, fraud_score, actual_fraud) ==
    Append(history, [fraud_score |-> fraud_score, actual_fraud |-> actual_fraud])

\* self.feedback_history[-1000:]
Recent(history) ==
    SubSeq(history, Len(history) - Min(Len(history), RecentFeedback) + 1, Len(history))

\* np.sum((predictions == p) & (actuals == a)) with predictions = scores >= t
CountWhere(recent, t, predicted, actual) ==
    Cardinality({ i \in DOMAIN recent :
                    /\ Ge(recent[i].fraud_score, t) = predicted
                    /\ recent[i].actual_fraud = actual })

\* |tp / (n + 1e-10) - target| for counts tp <= n, as a value  std + eps * inf
\* with eps a positive infinitesimal standing for the 1e-10: tp/(n + eps) is
\* tp/n - eps * tp/n^2 when n > 0, and 0/eps = 0 when n = 0.
TargetGap(tp, n, target_num, target_den) ==
    IF n = 0
    THEN [std |-> Frac(target_num, target_den), inf |-> Frac(0, 1)]
    ELSE IF target_den * tp > target_num * n
    THEN [std |-> Frac(target_den * tp - target_num * n, target_den * n),
          inf |-> Frac(0 - tp, n * n)]
    ELSE [std |-> Frac(target_num * n - target_den * tp, target_den * n),
          inf |-> Frac(tp, n * n)]

\* precision_diff + recall_diff at candidate threshold t (the negated `score`)
Distance(recent, t) ==
    LET tp == CountWhere(recent, t, TRUE, TRUE)
        fp == CountWhere(recent, t, TRUE, FALSE)
        fn == CountWhere(recent, t, FALSE, TRUE)
        p == TargetGap(tp, tp + fp, TargetPrecisionNum, TargetPrecisionDen)
        r == TargetGap(tp, tp + fn, TargetRecallNum, TargetRecallDen)
    IN  [std |-> AddFrac(p.std, r.std), inf |-> AddFrac(p.inf, r.inf)]

\* score > best_score, where score = -distance
Better(d, best) ==
    \/ LessFrac(d.std, best.std)
    \/ d.std = best.std /\ LessFrac(d.inf, best.inf)

\* the for loop from candidate i on; best_score starts at -inf, so the first
\* candidate always replaces the initial best_threshold
RECURSIVE ScanGrid(_, _, _, _)
ScanGrid(recent, i, best_threshold, best) ==
    IF i >= GridPoints THEN best_threshold
    ELSE LET d == Distance(recent, GridPoint(i))
         IN  IF i = 0 \/ Better(d, best)
             THEN ScanGrid(recent, i + 1, GridPoint(i), d)
             ELSE ScanGrid(recent, i + 1, best_threshold, best)

\* the search run on whatever feedback there is, without the length check
optimize_threshold_AlwaysScans(history, current) ==
    ScanGrid(Recent(history), 0, current, [std |-> Frac(0, 1), inf |-> Frac(0, 1)])

\* the value optimize_threshold returns and stores
optimize_threshold(history, current) ==
    IF Len(history) < MinFeedback
    THEN current
    ELSE ScanGrid(Recent(history), 0, current,
                  [std |-> Frac(0, 1), inf |-> Frac(0, 1)])

\* n calls of add_feedback with the same arguments: the record one call appends,
\* appended n times
AddFeedbackTimes(history, n, fraud_score, actual_fraud) ==
    history \o [ i \in 1 .. n |->
                   add_feedback(<<>>, fraud_score, actual_fraud)[1] ]

\* add_feedback called n times in a row with the same score and label
AddFeedback(n, fraud_score, actual_fraud) ==
    /\ calls' = calls + 1
    /\ call' = [ op |-> "add_feedback", transaction |-> NoTransaction,
                 proba |-> NoProba ]
    /\ feedback_history' =
           AddFeedbackTimes(feedback_history, n, fraud_score, actual_fraud)
    /\ UNCHANGED <<managers, merchant_statistics, returned, now, batch, recorded,
                   high_risk_threshold, medium_risk_threshold, engine, threshold,
                   result, arrivals, deque_ids, task>>

OptimizeThreshold ==
    /\ calls' = calls + 1
    /\ call' = [ op |-> "optimize_threshold", transaction |-> NoTransaction,
                 proba |-> NoProba ]
    /\ threshold' = optimize_threshold(feedback_history, threshold)
    /\ returned' = threshold'
    /\ UNCHANGED <<managers, merchant_statistics, now, batch, recorded,
                   high_risk_threshold, medium_risk_threshold, engine,
                   feedback_history, result, arrivals, deque_ids, task>>

-----------------------------------------------------------------------------
(* An engine and a threshold manager side by side *)

CalibAdds == 3          \* add_feedback runs per behaviour of SpecCalib

CalibCalls == 5         \* operations per behaviour of SpecCalib

\* 90 + 9 = 99 records leave optimize_threshold idle, 90 + 9 + 1 = 100 are the
\* least that make it act
RunLengths == {1, 9, 90}

\* a caught fraud, a cleared payment, a fraud the scorer missed
FeedbackInputs == { <<400, TRUE>>, <<100, FALSE>>, <<100, TRUE>> }

CalibTransaction ==
    [ transaction_id |-> "t1", user_id |-> "u1", merchant_id |-> "m1",
      amount |-> 50, timestamp |-> 5, transaction_type |-> "purchase",
      channel |-> "online" ]

AddFeedbackCalib ==
    /\ calls < CalibAdds
    /\ \E n \in RunLengths, f \in FeedbackInputs : AddFeedback(n, f[1], f[2])

OptimizeThresholdCalib ==
    /\ calls < CalibCalls
    /\ OptimizeThreshold

DetectFraudCalib ==
    /\ calls < CalibCalls
    /\ \E s \in {200, 343} :
          DetectFraud(CalibTransaction, [kind |-> "proba", value |-> s],
                      [kind |-> "empty", top_features |-> <<>>], "1.0.0", 1)

NextCalib == AddFeedbackCalib \/ OptimizeThresholdCalib \/ DetectFraudCalib

SpecCalib == InitDefault /\ [][NextCalib]_vars

\* C8 as stated: once optimize_threshold has stored a new threshold t, detect_fraud
\* maps scores to decisions with t as its adaptive threshold: the result is the
\* one obtained with t in the place of medium_risk_threshold or with t in the
\* place of high_risk_threshold, not the one of the constructor's values.
C8_EngineReadsCalibratedThreshold ==
    (ReturnedScored /\ threshold # DefaultMedium) =>
        LET s == call.proba.value
        IN  \/ /\ result.is_fraud = Ge(s, threshold)
               /\ (result.decision # "approve") = Ge(s, threshold)
            \/ (result.decision = "decline") = Ge(s, threshold)

\* C11: while fewer than 100 feedback records have been added, optimize_threshold
\* returns the current threshold and changes neither the threshold nor the
\* feedback log, after any sequence of add_feedback and optimize_threshold calls.
C11_NoOpBelowMinimum ==
    [][ (/\ calls' = calls + 1
         /\ call'.op = "optimize_threshold"
         /\ Len(feedback_history) < 100) =>
            /\ returned' = threshold
            /\ threshold' = threshold
            /\ feedback_history' = feedback_history ]_vars

\* optimize_threshold was called on 99 records of caught frauds, for which the
\* search would store 0.1, and gave back the constructor's 0.5
C11_Witness ==
    /\ call.op = "optimize_threshold"
    /\ Len(feedback_history) = 99
    /\ \A i \in 1 .. 99 : feedback_history[i] = [fraud_score |-> 400, actual_fraud |-> TRUE]
    /\ returned = DefaultMedium
    /\ threshold = DefaultMedium

\* C12 as stated: with at least 100 records, optimize_threshold stores and returns
\* the point of the 50-point grid over [0.1, 0.9] that minimizes
\* |precision - 0.95| + |recall - 0.90|, precision and recall being those of
\* prediction = (score >= candidate) over the most recent 1000 records (0 when
\* their denominator is 0); among points at equal distance the lowest one.
C12_LowestBestOfRecent ==
    (call.op = "optimize_threshold" /\ Len(feedback_history) >= 100) =>
        LET n == Len(feedback_history)
            recent == SubSeq(feedback_history, IF n > 1000 THEN n - 999 ELSE 1, n)
            grid == { 49 + 8 * i : i \in 0 .. 49 }
            distance(t) == Distance(recent, t).std
        IN  /\ returned = threshold
            /\ threshold \in grid
            /\ \A t \in grid : ~LessFrac(distance(t), distance(threshold))
            /\ \A t \in grid : t < threshold => distance(t) # distance(threshold)

-----------------------------------------------------------------------------
(* The feature extractor on its own *)

FeatureCalls == 4       \* operations per behaviour of SpecFeatures

\* what extract_features is asked about: a user with and without a window, at
\* several distances from the window's entries, with no timestamp, and every
\* allowed type and channel
FeatureTransactions ==
    TransactionsOf({"t2"}, Users, {50}, {NoneTs, 6, 40, 70}, {"purchase"}, {"online"})
    \cup TransactionsOf({"t2"}, {"u1"}, {50}, {40}, AllowedTypes, AllowedChannels)

UpdateHistoryFeatures ==
    /\ calls < FeatureCalls
    /\ \E transaction \in TransactionsOf({"t1"}, {"u1"}, {50, 200}, {5, 6, 40},
                                         {"purchase"}, {"online"}) :
          UpdateHistory(transaction)

ExtractFeaturesCall ==
    /\ calls < FeatureCalls
    /\ \E transaction \in FeatureTransactions, clock \in {0, 1} :
          ExtractFeatures(transaction, clock)

NextFeatures == UpdateHistoryFeatures \/ ExtractFeaturesCall

SpecFeatures == InitDefault /\ [][NextFeatures]_vars

\* C13: a call of extract_features leaves every history window and the merchant
\* statistics as they were (no window appears for an unseen user), and a second
\* call with the same transaction on the same tables returns the same vector,
\* whatever the wall clock shows.
C13_ExtractFeaturesPure ==
    [][ (calls' = calls + 1 /\ call'.op = "extract_features") =>
            /\ user_transaction_history' = user_transaction_history
            /\ merchant_statistics' = merchant_statistics
            /\ (call.op = "extract_features"
                    /\ call.transaction = call'.transaction) =>
                  returned' = returned ]_vars

\* features were extracted for a user who has no window, while another user has
\* one: the vector shows no history and still no window exists for that user
C13_Witness ==
    /\ call.op = "extract_features"
    /\ call.transaction.user_id = "u2"
    /\ call.transaction.timestamp # NoneTs
    /\ now = 1
    /\ returned.user_transaction_count = 0
    /\ DOMAIN user_transaction_history = {"u1"}
    /\ Len(user_transaction_history["u1"]) = 2

\* C14 as stated: the set of feature names extract_features returns is the same
\* for every transaction and every state of the tables, in particular for a
\* window with no entry, with one entry and with two or more entries.
C14_FixedSchema ==
    (call.op = "extract_features" /\ call.transaction.timestamp # NoneTs) =>
        DOMAIN returned = DOMAIN extract_features(<<>>, <<>>, call.transaction)

\* C18 as stated: time_since_last_transaction_seconds is 999999 exactly when the
\* user's window holds no entry; with one entry or more it is the transaction's
\* timestamp minus that of the entry appended last, in seconds, and the 1-hour
\* and 24-hour counts are the numbers of window entries within the hour and
\* within the day that end at the transaction's timestamp.
C18_VelocityFromLastEntry ==
    (call.op = "extract_features" /\ call.transaction.timestamp # NoneTs) =>
        LET window == HistoryOf(user_transaction_history, call.transaction.user_id)
            ts == call.transaction.timestamp
            within(hours) ==
                Cardinality({ i \in DOMAIN window :
                                /\ window[i].timestamp > ts - hours
                                /\ window[i].timestamp <= ts })
        IN  /\ (returned.time_since_last_transaction_seconds = 999999)
                   <=> (Len(window) = 0)
            /\ Len(window) >= 1 =>
                   returned.time_since_last_transaction_seconds
                       = (ts - window[Len(window)].timestamp) * 3600
            /\ returned.transactions_last_hour = within(1)
            /\ returned.transactions_last_day = within(24)

\* C19 as stated: for a transaction whose type is one of purchase, withdrawal,
\* transfer, payment and whose channel is one of online, mobile, atm, pos, exactly
\* one type indicator is 1 and exactly one channel indicator is 1, and another
\* type or channel gives another pattern of indicators.
C19_OneHotTypeAndChannel ==
    (/\ call.op = "extract_features"
     /\ call.transaction.timestamp # NoneTs
     /\ call.transaction.transaction_type \in
            {"purchase", "withdrawal", "transfer", "payment"}
     /\ call.transaction.channel \in {"online", "mobile", "atm", "pos"}) =>
        LET types(f) == << f.transaction_type_purchase,
                           f.transaction_type_withdrawal,
                           f.transaction_type_transfer >>
            channels(f) == << f.channel_online, f.channel_mobile,
                              f.channel_atm, f.channel_pos >>
            other(type, channel) ==
                extract_transaction_features(
                    [call.transaction EXCEPT !.transaction_type = type,
                                             !.channel = channel])
        IN  /\ Sum(types(returned)) = 1
            /\ Sum(channels(returned)) = 1
            /\ \A type \in {"purchase", "withdrawal", "transfer", "payment"} :
                   type # call.transaction.transaction_type =>
                       types(other(type, call.transaction.channel)) # types(returned)
            /\ \A channel \in {"online", "mobile", "atm", "pos"} :
                   channel # call.transaction.channel =>
                       channels(other(call.transaction.transaction_type, channel))
                           # channels(returned)

-----------------------------------------------------------------------------
(* Batches and long runs of detect_fraud on one engine *)

BatchCalls == 2         \* operations of SpecBatch that may be batches

BatchRun == 1060        \* operations per behaviour of SpecBatch

\* The k-th transaction of a stream for one user, with what the model answers
\* while it is processed: now and then a scorer that raises, a missing
\* timestamp, a version that cannot be read; scores over the whole range.
StreamItem(k) ==
    [ transaction |->
          [StreamTransaction("u1", k) EXCEPT
               !.transaction_id = ToString(k),
               !.timestamp = IF k % 89 = 4 THEN NoneTs ELSE @],
      proba |-> IF k % 97 = 3
                THEN [kind |-> "raises", value |-> 0]
                ELSE [kind |-> "proba", value |-> (k * 97) % 491],
      explain |-> [kind |-> "empty", top_features |-> <<>>],
      version |-> IF k % 83 = 5 THEN "raises" ELSE "1.0.0",
      elapsed |-> 1 + ((k * 37) % 101) ]

\* the next n transactions of the stream, as one list
DetectFraudBatchCall ==
    /\ calls < BatchCalls
    /\ \E n \in {0, 2, 3} :
          DetectFraudBatch([i \in 1 .. n |-> StreamItem(Len(recorded) + calls + i)])

\* the next transaction of the stream, on its own
DetectFraudStream ==
    /\ calls < BatchRun
    /\ LET item == StreamItem(Len(recorded) + calls + 1)
       IN  DetectFraud(item.transaction, item.proba, item.explain, item.version,
                       item.elapsed)

\* the metrics are read before the first call, after it, and at the end of
\* the run
GetPerformanceMetricsBatch ==
    /\ calls \in {0, 1, BatchRun}
    /\ GetPerformanceMetrics

NextBatch ==
    DetectFraudBatchCall \/ DetectFraudStream \/ GetPerformanceMetricsBatch

SpecBatch == InitDefault /\ [][NextBatch]_vars

\* C16: detect_fraud_batch returns one result per transaction, the i-th carrying
\* the i-th transaction's id, and results and final engine state (windows,
\* counters, latency buffer) are those of calling detect_fraud on each element
\* in list order; a failing element gives the fail-safe result at its position
\* and the rest of the list is still processed.
C16_BatchIsCallsInOrder ==
    (call.op = "detect_fraud_batch") =>
        LET items == batch.items
            n == Len(items)
            after[i \in 0 .. n] ==
                IF i = 0
                THEN [ engine |-> batch.before, result |-> NoResult ]
                ELSE detect_fraud(after[i - 1].engine, high_risk_threshold,
                                  medium_risk_threshold, items[i].transaction,
                                  items[i].proba, items[i].explain,
                                  items[i].version, items[i].elapsed)
        IN  /\ Len(returned) = n
            /\ \A i \in 1 .. n :
                  /\ returned[i].transaction_id = items[i].transaction.transaction_id
                  /\ returned[i] = after[i].result
                  /\ ScoringFails(items[i].transaction, items[i].proba) =>
                         (returned[i].path = "failsafe"
                              /\ returned[i].decision = "review")
            /\ EngineNow = after[n].engine

\* a batch of three whose first element had no timestamp and whose second had no
\* readable model version: both got the review result and the third was scored
C16_Witness ==
    /\ call.op = "detect_fraud_batch"
    /\ Len(returned) = 3
    /\ batch.items[1].transaction.timestamp = NoneTs
    /\ returned[1].path = "failsafe"
    /\ returned[2].path = "failsafe"
    /\ returned[3].path = "normal"
    /\ total_transactions = batch.before.total_transactions + 2

\* C20: the latency buffer holds at most 1000 samples, which are the most
\* recently recorded ones in recording order; total_transactions and
\* total_fraud_detected never decrease, and total_fraud_detected increases only
\* on a call whose result has is_fraud true.
C20_LatencyBufferAndCounters ==
    /\ [] (LET n == Len(recorded)
               kept == Len(processing_times)
           IN  /\ kept <= 1000
               /\ kept = Min(1000, n)
               /\ \A i \in 1 .. kept : processing_times[i] = recorded[n - kept + i])
    /\ [][ /\ total_transactions' >= total_transactions
           /\ total_fraud_detected' >= total_fraud_detected
           /\ total_fraud_detected' > total_fraud_detected =>
                 \/ call'.op = "detect_fraud" /\ result'.is_fraud
                 \/ /\ call'.op = "detect_fraud_batch"
                    /\ total_fraud_detected' - total_fraud_detected
                           <= Cardinality({ i \in DOMAIN returned' :
                                              returned'[i].is_fraud }) ]_vars

\* 1001 samples were recorded: the buffer holds the last 1000 of them, and some
\* but not all of the calls counted as fraud
C20_Witness ==
    /\ Len(recorded) = 1001
    /\ Len(processing_times) = 1000
    /\ processing_times[1] = recorded[2]
    /\ processing_times[1000] = recorded[1001]
    /\ processing_times[1] # recorded[1]
    /\ total_transactions = 1001
    /\ total_fraud_detected > 0
    /\ total_fraud_detected < total_transactions

-----------------------------------------------------------------------------
(* The decision as a function of high_risk_threshold *)

\* candidate values of high_risk_threshold: the scores the scorer can give, and
\* values below and above all of them
HighThresholds == {0, 147, 245, 343, 441, Scale, 539, 588}

\* approve, review, decline in the order of increasing severity
Severity(decision) ==
    CASE decision = "approve" -> 0
      [] decision = "review" -> 1
      [] decision = "decline" -> 2

\* C17: for a fixed score and a fixed medium_risk_threshold the decision is
\* monotone in high_risk_threshold: with any higher high threshold the same score
\* gets the same decision or a less severe one (decline to review or approve),
\* and with any lower one the same or a more severe one; raising the threshold
\* never moves approve or review towards decline.
C17_DecisionMonotoneInHigh ==
    ReturnedScored =>
        \A h \in HighThresholds :
            LET other == Decision(result.fraud_score, h, medium_risk_threshold)
            IN  /\ h >= high_risk_threshold =>
                      Severity(other) <= Severity(result.decision)
                /\ h <= high_risk_threshold =>
                      Severity(other) >= Severity(result.decision)
                /\ \A h2 \in HighThresholds :
                      h <= h2 =>
                          Severity(Decision(result.fraud_score, h2,
                                            medium_risk_threshold))
                              <= Severity(other)

\* a score on the high threshold was declined, and with a higher high threshold
\* the same score would be reviewed
C17_Witness ==
    /\ ReturnedScored
    /\ result.fraud_score = high_risk_threshold
    /\ medium_risk_threshold < high_risk_threshold
    /\ result.decision = "decline"
    /\ \E h \in HighThresholds :
          /\ h > high_risk_threshold
          /\ Decision(result.fraud_score, h, medium_risk_threshold) = "review"

-----------------------------------------------------------------------------
(* DifferentialPrivacyManager (src/src/privacy/differential_privacy.py).    *)
(* Epsilons are in tenths. An array or series is the number of its values,  *)
(* a DataFrame the sequence of its columns, each with the kind of its       *)
(* values; the noise itself is not modelled, only whether it was produced.  *)

PrivacyNow ==
    [ total_epsilon |-> total_epsilon, consumed_epsilon |-> consumed_epsilon,
      query_history |-> query_history ]

Raise(exception) == [ exception |-> exception ]

Raises(value) == DOMAIN value = {"exception"}

\* the budget test answering yes to everything
check_budget_AlwaysTrue(pm, epsilon) == TRUE

check_budget(pm, epsilon) == pm.consumed_epsilon + epsilon <= pm.total_epsilon

remaining_budget(pm) ==
    IF pm.total_epsilon - pm.consumed_epsilon > 0
    THEN pm.total_epsilon - pm.consumed_epsilon
    ELSE 0

\* _consume_budget; the entry's 'timestamp' is left out
consume_budget(pm, epsilon, operation) ==
    LET after == [pm EXCEPT !.consumed_epsilon = @ + epsilon]
    IN  [after EXCEPT !.query_history =
             Append(@, [ operation |-> operation, epsilon |-> epsilon,
                         remaining |-> remaining_budget(after) ])]

\* Laplace(epsilon, delta=0, ...) and Gaussian(epsilon, delta, ...) reject an
\* epsilon that is not positive; `mechanism` says whether building the mechanism
\* or randomising a value raised for another reason (a value that is no number)
MechanismRaises(epsilon, mechanism) == epsilon <= 0 \/ mechanism = "raises"

add_laplace_noise(pm, data, epsilon, mechanism) ==
    IF ~check_budget(pm, epsilon)
    THEN [ pm |-> pm, returned |-> Raise("ValueError") ]
    ELSE IF MechanismRaises(epsilon, mechanism)
    THEN [ pm |-> pm, returned |-> Raise("MechanismError") ]
    ELSE [ pm |-> consume_budget(pm, epsilon, "laplace_noise"),
           returned |-> [ noisy_data |-> data ] ]

add_gaussian_noise(pm, data, epsilon, mechanism) ==
    IF ~check_budget(pm, epsilon)
    THEN [ pm |-> pm, returned |-> Raise("ValueError") ]
    ELSE IF MechanismRaises(epsilon, mechanism)
    THEN [ pm |-> pm, returned |-> Raise("MechanismError") ]
    ELSE [ pm |-> consume_budget(pm, epsilon, "gaussian_noise"),
           returned |-> [ noisy_data |-> data ] ]

\* df.columns of a DataFrame given as a sequence of [name, kind, values]
ColumnNames(df) == { df[i].name : i \in DOMAIN df }

\* the loop `for col in columns_to_privatize` from its k-th column on, `done`
\* columns privatized so far
RECURSIVE privatize_columns(_, _, _, _, _, _, _)
privatize_columns(pm, df, columns, k, epsilon_per_column, mechanism, done) ==
    IF k > Len(columns)
    THEN [ pm |-> pm, returned |-> [ df_private |-> done ] ]
    ELSE IF columns[k] \notin ColumnNames(df)
    THEN privatize_columns(pm, df, columns, k + 1, epsilon_per_column, mechanism,
                           done)
    ELSE LET column == CHOOSE c \in { df[i] : i \in DOMAIN df } :
                                c.name = columns[k]
             noisy == add_laplace_noise(pm, column.values, epsilon_per_column,
                                        mechanism)
         IN  IF column.kind # "number"
             THEN [ pm |-> pm, returned |-> Raise("TypeError") ]
             ELSE IF Raises(noisy.returned)
             THEN noisy
             ELSE privatize_columns(noisy.pm, df, columns, k + 1,
                                    epsilon_per_column, mechanism,
                                    done \cup {columns[k]})

\* columns_to_privatize is [is_none |-> TRUE] or [is_none |-> FALSE, names |-> ...];
\* None stands for df.select_dtypes(include=[np.number]).columns.tolist()
ColumnsToPrivatize(df, columns_to_privatize) ==
    LET numeric == SelectSeq(df, LAMBDA c : c.kind = "number")
    IN  IF columns_to_privatize.is_none
        THEN [ i \in DOMAIN numeric |-> numeric[i].name ]
        ELSE columns_to_privatize.names

privatize_dataframe(pm, df, epsilon_per_column, columns_to_privatize, mechanism) ==
    LET columns == ColumnsToPrivatize(df, columns_to_privatize)
        total == epsilon_per_column * Len(columns)
    IN  IF ~check_budget(pm, total)
        THEN [ pm |-> pm, returned |-> Raise("ValueError") ]
        ELSE privatize_columns(pm, df, columns, 1, epsilon_per_column, mechanism, {})

\* _generate_laplace_noise: scale = sensitivity / epsilon, and
\* np.random.laplace(0, scale) rejects a negative scale
generate_laplace_noise_raises(epsilon, sensitivity) ==
    epsilon < 0 /\ sensitivity > 0

\* the loop `for stat in statistics` from its k-th statistic on; `spread` is
\* data.max() - data.min()
RECURSIVE private_statistics(_, _, _, _, _, _)
private_statistics(pm, spread, statistics, k, epsilon_per_stat, results) ==
    IF k > Len(statistics)
    THEN [ pm |-> pm, returned |-> [ results |-> results ] ]
    ELSE LET stat == statistics[k]
             noisy == stat \in {"mean", "sum", "std"}
         IN  IF noisy /\ generate_laplace_noise_raises(epsilon_per_stat, spread)
             THEN [ pm |-> pm, returned |-> Raise("ValueError") ]
             ELSE private_statistics(
                      consume_budget(pm, epsilon_per_stat, "stat_" \o stat),
                      spread, statistics, k + 1, epsilon_per_stat,
                      IF stat \in {"mean", "sum", "median", "std"}
                      THEN results \cup {stat} ELSE results)

compute_private_statistics(pm, spread, statistics, epsilon_per_stat) ==
    IF ~check_budget(pm, epsilon_per_stat * Len(statistics))
    THEN [ pm |-> pm, returned |-> Raise("ValueError") ]
    ELSE private_statistics(pm, spread, statistics, 1, epsilon_per_stat, {})

\* np.histogram rejects a number of bins that is not positive
create_private_histogram(pm, data, bins, epsilon, mechanism) ==
    IF ~check_budget(pm, epsilon)
    THEN [ pm |-> pm, returned |-> Raise("ValueError") ]
    ELSE IF bins <= 0
    THEN [ pm |-> pm, returned |-> Raise("ValueError") ]
    ELSE LET noisy == add_laplace_noise(pm, bins, epsilon, mechanism)
         IN  IF Raises(noisy.returned)
             THEN noisy
             ELSE [ pm |-> noisy.pm, returned |-> [ noisy_counts |-> bins ] ]

\* one call on the privacy manager: `epsilon` is what a call that succeeds is
\* to be charged for, `after` what the method did
PrivacyCall(op, epsilon, after) ==
    /\ calls' = calls + 1
    /\ call' = [ op |-> op, epsilon |-> epsilon ]
    /\ total_epsilon' = after.pm.total_epsilon
    /\ consumed_epsilon' = after.pm.consumed_epsilon
    /\ query_history' = after.pm.query_history
    /\ returned' = after.returned
    /\ UNCHANGED <<users, max_failed_attempts, lockout_duration,
                   models, active_model, merchant_statistics, now, batch, recorded,
                   high_risk_threshold, medium_risk_threshold,
                   user_transaction_history, total_transactions,
                   total_fraud_detected, processing_times, threshold,
                   feedback_history, result, arrivals, deque_ids, task>>

PrivacyCalls == 3       \* operations per behaviour of SpecPrivacy

Epsilons == {0 - 3, 0, 3, 6, 12}

\* DifferentialPrivacyManager(total_epsilon=0.5) in the place of the default one
ConstructPrivacyManager ==
    /\ calls = 0
    /\ \E total \in {5} :
          PrivacyCall("DifferentialPrivacyManager", 0,
                      [ pm |-> NewPrivacyManager(total), returned |-> <<>> ])

AddLaplaceNoise ==
    /\ calls < PrivacyCalls
    /\ \E epsilon \in Epsilons, mechanism \in {"ok", "raises"} :
          PrivacyCall("add_laplace_noise", epsilon,
                      add_laplace_noise(PrivacyNow, 3, epsilon, mechanism))

AddGaussianNoise ==
    /\ calls < PrivacyCalls
    /\ \E epsilon \in Epsilons, mechanism \in {"ok", "raises"} :
          PrivacyCall("add_gaussian_noise", epsilon,
                      add_gaussian_noise(PrivacyNow, 3, epsilon, mechanism))

\* a frame with a numeric column, a text column and another numeric one; the
\* call's epsilon counts the columns that the frame has
PrivatizeDataframe ==
    /\ calls < PrivacyCalls
    /\ \E epsilon \in Epsilons,
          columns \in { [ is_none |-> TRUE, names |-> <<>> ],
                        [ is_none |-> FALSE, names |-> <<"amount", "merchant">> ],
                        [ is_none |-> FALSE, names |-> <<"amount", "missing">> ],
                        [ is_none |-> FALSE, names |-> <<>> ] } :
          LET df == << [ name |-> "amount", kind |-> "number", values |-> 3 ],
                       [ name |-> "merchant", kind |-> "text", values |-> 3 ],
                       [ name |-> "age", kind |-> "number", values |-> 3 ] >>
              present == SelectSeq(ColumnsToPrivatize(df, columns),
                                   LAMBDA c : c \in ColumnNames(df))
          IN  PrivacyCall("privatize_dataframe", epsilon * Len(present),
                          privatize_dataframe(PrivacyNow, df, epsilon, columns,
                                              "ok"))

ComputePrivateStatistics ==
    /\ calls < PrivacyCalls
    /\ \E epsilon \in Epsilons, spread \in {0, 2},
          statistics \in { <<"mean">>, <<"median", "mean">>,
                           <<"sum", "std", "mode">> } :
          PrivacyCall("compute_private_statistics", epsilon * Len(statistics),
                      compute_private_statistics(PrivacyNow, spread, statistics,
                                                 epsilon))

CreatePrivateHistogram ==
    /\ calls < PrivacyCalls
    /\ \E epsilon \in Epsilons, bins \in {0, 4}, mechanism \in {"ok", "raises"} :
          PrivacyCall("create_private_histogram", epsilon,
                      create_private_histogram(PrivacyNow, 20, bins, epsilon,
                                               mechanism))

NextPrivacy ==
    \/ ConstructPrivacyManager
    \/ AddLaplaceNoise
    \/ AddGaussianNoise
    \/ PrivatizeDataframe
    \/ ComputePrivateStatistics
    \/ CreatePrivateHistogram

SpecPrivacy == InitDefault /\ [][NextPrivacy]_vars

NoiseOperations == {"add_laplace_noise", "add_gaussian_noise"}

PrivacyOperations ==
    NoiseOperations \cup {"privatize_dataframe", "compute_private_statistics",
                          "create_private_histogram"}

\* C21: a noise operation whose epsilon would take consumed_epsilon above
\* total_epsilon raises ValueError and returns no noisy data, and
\* consumed_epsilon, remaining_budget and query_history are as before the call.
C21_OverBudgetRaisesAndKeepsState ==
    [][ (/\ calls' = calls + 1
         /\ call'.op \in NoiseOperations
         /\ consumed_epsilon + call'.epsilon > total_epsilon) =>
            /\ returned' = Raise("ValueError")
            /\ consumed_epsilon' = consumed_epsilon
            /\ total_epsilon' = total_epsilon
            /\ remaining_budget(PrivacyNow)' = remaining_budget(PrivacyNow)
            /\ query_history' = query_history ]_vars

\* with 0.6 of 1.0 consumed by one recorded query, a noise operation asking for
\* another 0.6 was refused
C21_Witness ==
    /\ call.op \in NoiseOperations
    /\ call.epsilon = 6
    /\ total_epsilon = 10
    /\ consumed_epsilon = 6
    /\ Len(query_history) = 1
    /\ returned = Raise("ValueError")

\* C22 as stated: every privacy operation that succeeds adds its epsilon to
\* consumed_epsilon, once, and one that raises adds nothing; consumed_epsilon
\* never exceeds total_epsilon and remaining_budget is total_epsilon minus
\* consumed_epsilon.
C22_ConsumedIsSumOfSucceeded ==
    /\ [] (/\ consumed_epsilon <= total_epsilon
           /\ remaining_budget(PrivacyNow) = total_epsilon - consumed_epsilon)
    /\ [][ (calls' = calls + 1 /\ call'.op \in PrivacyOperations) =>
              consumed_epsilon' =
                  consumed_epsilon
                      + (IF Raises(returned') THEN 0 ELSE call'.epsilon) ]_vars

-----------------------------------------------------------------------------
(* AuthenticationManager (src/src/security/authentication.py). Times are    *)
(* whole minutes; `users` is the dict in insertion order; a user's          *)
(* last_login is NoneTs until the first successful authentication.          *)

\* pwd_context.hash(password); pwd_context.verify(p, h) is h = Hash(p)
Hash(password) == [ bcrypt |-> password ]

register_user(registered, user_id, username, email, password) ==
    IF \E i \in DOMAIN registered : registered[i].user_id = user_id
    THEN [ users |-> registered, returned |-> Raise("ValueError") ]
    ELSE LET user == [ user_id |-> user_id, username |-> username,
                       email |-> email, hashed_password |-> Hash(password),
                       is_active |-> TRUE, last_login |-> NoneTs,
                       failed_login_attempts |-> 0 ]
         IN  [ users |-> Append(registered, user), returned |-> user ]

\* authenticate(username, password) with datetime.now() showing `clock`; None
\* is returned as <<>>
authenticate(registered, max_attempts, lockout, username, password, clock) ==
    LET found == { i \in DOMAIN registered :
                     registered[i].username = username
                         \/ registered[i].email = username }
        i == CHOOSE j \in found : \A k \in found : j <= k
        user == registered[i]
        locked == /\ user.failed_login_attempts >= max_attempts
                  /\ user.last_login # NoneTs
                  /\ clock - user.last_login < lockout
        expired == /\ user.failed_login_attempts >= max_attempts
                   /\ user.last_login # NoneTs
                   /\ ~(clock - user.last_login < lockout)
        checked == IF expired THEN [user EXCEPT !.failed_login_attempts = 0]
                   ELSE user
    IN  IF found = {}
        THEN [ users |-> registered, returned |-> <<>> ]
        ELSE IF locked
        THEN [ users |-> registered, returned |-> <<>> ]
        ELSE IF checked.hashed_password # Hash(password)
        THEN [ users |-> [registered EXCEPT ![i] =
                              [checked EXCEPT !.failed_login_attempts = @ + 1]],
               returned |-> <<>> ]
        ELSE IF ~checked.is_active
        THEN [ users |-> [registered EXCEPT ![i] = checked], returned |-> <<>> ]
        ELSE LET authenticated == [checked EXCEPT !.failed_login_attempts = 0,
                                                  !.last_login = clock]
             IN  [ users |-> [registered EXCEPT ![i] = authenticated],
                   returned |-> authenticated ]

\* one call on the authentication manager at time `clock`
AuthCall(op, username, password, clock, after) ==
    /\ calls' = calls + 1
    /\ call' = [ op |-> op, username |-> username, password |-> password ]
    /\ now' = clock
    /\ users' = after.users
    /\ returned' = after.returned
    /\ UNCHANGED <<total_epsilon, consumed_epsilon, query_history,
                   models, active_model, max_failed_attempts, lockout_duration,
                   merchant_statistics, batch, recorded,
                   high_risk_threshold, medium_risk_threshold,
                   user_transaction_history, total_transactions,
                   total_fraud_detected, processing_times, threshold,
                   feedback_history, result, arrivals, deque_ids, task>>

AuthCalls == 8          \* operations per behaviour of SpecAuth

RegisterUser ==
    /\ calls < AuthCalls
    /\ Len(users) < 2
    /\ \E name \in {"alice", "bob"} :
          AuthCall("register_user", name, "right", now,
                   register_user(users, name, name, name \o "@example.com",
                                 "right"))

\* the clock stands still or moves on by 40 minutes, more than the lockout
Authenticate ==
    /\ calls < AuthCalls
    /\ \E username \in {"alice", "bob@example.com"},
          password \in {"right", "wrong"}, passed \in {0, 40} :
          AuthCall("authenticate", username, password, now + passed,
                   authenticate(users, max_failed_attempts, lockout_duration,
                                username, password, now + passed))

NextAuth == RegisterUser \/ Authenticate

SpecAuth == InitDefault /\ [][NextAuth]_vars

\* the registered user that `username` names, as a set of positions in users
Named(username) ==
    { i \in DOMAIN users :
        users[i].username = username \/ users[i].email = username }

\* C23 as stated: once a registered user has max_failed_attempts consecutive
\* wrong passwords on record, every further authenticate call for that user
\* within the lockout duration returns None, whatever the password and whether
\* or not the user ever logged in; a wrong password always returns None; a
\* successful authentication leaves the failed-attempt count at 0. (The first
\* part is stated for calls made before one lockout duration has passed since
\* the manager was built, which is within the lockout duration of any failure.)
C23_LockoutAfterMaxFailures ==
    [][ (calls' = calls + 1 /\ call'.op = "authenticate") =>
            /\ \A i \in Named(call'.username) :
                  (/\ users[i].failed_login_attempts >= max_failed_attempts
                   /\ now' < lockout_duration) =>
                      DOMAIN returned' = {}
            /\ call'.password # "right" => DOMAIN returned' = {}
            /\ DOMAIN returned' # {} =>
                  \A i \in Named(call'.username) :
                      users'[i].failed_login_attempts = 0 ]_vars

-----------------------------------------------------------------------------
(* ModelRegistry (src/src/models/base.py). A model is its name, its version *)
(* and whether it was trained; None as a returned model is <<>>.            *)

\* f"{model.model_name}_{model.version}"
ModelKey(model) == model.model_name \o "_" \o model.version

register_model(reg, model, set_active) ==
    LET model_key == ModelKey(model)
        registered == (model_key :> model) @@ reg.models
    IN  [ models |-> registered,
          active_model |-> IF set_active \/ reg.active_model \in {None, ""}
                           THEN model_key
                           ELSE reg.active_model,
          returned |-> <<>> ]

\* get_model(model_key); get_model() is get_model(None)
get_model(reg, model_key) ==
    IF model_key \notin {None, ""}
    THEN IF model_key \in DOMAIN reg.models THEN reg.models[model_key] ELSE <<>>
    ELSE IF reg.active_model \notin {None, ""}
    THEN IF reg.active_model \in DOMAIN reg.models
         THEN reg.models[reg.active_model]
         ELSE <<>>
    ELSE <<>>

set_active_model(reg, model_key) ==
    IF model_key \notin DOMAIN reg.models
    THEN [ models |-> reg.models, active_model |-> reg.active_model,
           returned |-> Raise("ValueError") ]
    ELSE [ models |-> reg.models, active_model |-> model_key, returned |-> <<>> ]

\* remove_model without the `if self.active_model == model_key` that follows
\* the deletion
remove_model_KeepsActive(reg, model_key) ==
    [ models |-> [ k \in DOMAIN reg.models \ {model_key} |-> reg.models[k] ],
      active_model |-> reg.active_model,
      returned |-> <<>> ]

remove_model(reg, model_key) ==
    IF model_key \in DOMAIN reg.models
    THEN [ models |-> [ k \in DOMAIN reg.models \ {model_key} |-> reg.models[k] ],
           active_model |-> IF reg.active_model = model_key
                            THEN None
                            ELSE reg.active_model,
           returned |-> <<>> ]
    ELSE [ models |-> reg.models, active_model |-> reg.active_model,
           returned |-> <<>> ]

RegistryNow == [ models |-> models, active_model |-> active_model ]

\* one call on the registry
RegistryCall(op, argument, set_active, after) ==
    /\ calls' = calls + 1
    /\ call' = [ op |-> op, argument |-> argument, set_active |-> set_active ]
    /\ models' = after.models
    /\ active_model' = after.active_model
    /\ returned' = after.returned
    /\ UNCHANGED <<total_epsilon, consumed_epsilon, query_history,
                   users, max_failed_attempts, lockout_duration, merchant_statistics, now, batch, recorded,
                   high_risk_threshold, medium_risk_threshold,
                   user_transaction_history, total_transactions,
                   total_fraud_detected, processing_times, threshold,
                   feedback_history, result, arrivals, deque_ids, task>>

RegistryCalls == 4      \* operations per behaviour of SpecRegistry

RegisterModel ==
    /\ calls < RegistryCalls
    /\ \E model \in [ model_name : {"xgboost", "ensemble"},
                      version : {"1.0.0", "2.0.0"}, is_trained : BOOLEAN ],
          set_active \in BOOLEAN :
          RegistryCall("register_model", model, set_active,
                       register_model(RegistryNow, model, set_active))

\* a registered key or one that was never registered
SetActiveModel ==
    /\ calls < RegistryCalls
    /\ \E model_key \in DOMAIN models \cup {"missing_0"} :
          RegistryCall("set_active_model", model_key, FALSE,
                       set_active_model(RegistryNow, model_key))

RemoveModel ==
    /\ calls < RegistryCalls
    /\ \E model_key \in DOMAIN models \cup {"missing_0"} :
          RegistryCall("remove_model", model_key, FALSE,
                       remove_model(RegistryNow, model_key))

NextRegistry == RegisterModel \/ SetActiveModel \/ RemoveModel

SpecRegistry == InitDefault /\ [][NextRegistry]_vars

\* C24: active_model is None or the key of a model in the registry;
\* register_model with set_active=True, or on a registry without an active
\* model, makes get_model() return the registered model; set_active_model with
\* an unknown key raises ValueError and leaves active_model as it was.
C24_ActiveModelIsRegistered ==
    /\ [] (active_model = None \/ active_model \in DOMAIN models)
    /\ [][ (calls' = calls + 1) =>
              /\ (/\ call'.op = "register_model"
                  /\ call'.set_active \/ active_model = None) =>
                     LET got == get_model(RegistryNow', None)
                     IN  /\ DOMAIN got = DOMAIN call'.argument
                         /\ got = call'.argument
              /\ (/\ call'.op = "set_active_model"
                  /\ call'.argument \notin DOMAIN models) =>
                     /\ returned' = Raise("ValueError")
                     /\ active_model' = active_model
                     /\ models' = models ]_vars

\* the active model was removed while another model stays registered: no model
\* is active
C24_Witness ==
    /\ call.op = "remove_model"
    /\ calls = 3
    /\ active_model = None
    /\ DOMAIN models # {}
    /\ call.argument \notin DOMAIN models
    /\ DOMAIN get_model(RegistryNow, None) = {}

-----------------------------------------------------------------------------
(* What one call of detect_fraud writes *)

\* the step is one whole call of detect_fraud
DetectFraudStep == calls' = calls + 1 /\ call'.op = "detect_fraud"

\* C25 as stated: every FraudResult returned to a caller, the fail-safe one
\* included, adds one to total_transactions, and adds one to
\* total_fraud_detected exactly when its is_fraud is true; so after any sequence
\* of calls the counters are the numbers of results and of fraud results.
C25_CountersCountResults ==
    [][ DetectFraudStep =>
            /\ total_transactions' = total_transactions + 1
            /\ total_fraud_detected' =
                   total_fraud_detected + (IF result'.is_fraud THEN 1 ELSE 0) ]_vars

\* C26 as stated: a call that returns the fail-safe result has appended to no
\* window, recorded no latency sample and incremented neither counter, wherever
\* in the call the failure occurred.
C26_FailSafeLeavesEngineUnchanged ==
    [][ (DetectFraudStep /\ result'.path = "failsafe") =>
            /\ user_transaction_history' = user_transaction_history
            /\ arrivals' = arrivals
            /\ processing_times' = processing_times
            /\ recorded' = recorded
            /\ total_transactions' = total_transactions
            /\ total_fraud_detected' = total_fraud_detected ]_vars

\* C27: when scoring succeeds and only explain_prediction raises or gives no
\* explanations, detect_fraud returns the risk and decision of the score with
\* an empty top_risk_factors and updates window, counters and latency buffer;
\* in every result top_risk_factors has at most 5 entries, the first ones the
\* scorer supplied, in its order.
C27_ExplanationFailureIsNotFailSafe ==
    /\ [][ (/\ DetectFraudStep
            /\ ~ScoringFails(call'.transaction, call'.proba)
            /\ call'.version # "raises"
            /\ call'.explain.kind \in {"raises", "empty"}) =>
               LET s == call'.proba.value
                   txn == call'.transaction
               IN  /\ result'.path = "normal"
                   /\ result'.fraud_score = s
                   /\ result'.risk_level =
                          RiskLevel(s, high_risk_threshold, medium_risk_threshold)
                   /\ result'.decision =
                          Decision(s, high_risk_threshold, medium_risk_threshold)
                   /\ result'.top_risk_factors = <<>>
                   /\ total_transactions' = total_transactions + 1
                   /\ Len(recorded') = Len(recorded) + 1
                   /\ arrivals'[txn.user_id] =
                          Append(arrivals[txn.user_id], HistoryEntry(txn)) ]_vars
    /\ [] (/\ Len(result.top_risk_factors) <= 5
           /\ (call.op = "detect_fraud" /\ result.path = "normal"
                   /\ call.explain.kind = "ok") =>
                  LET supplied == call.explain.top_features
                      n == Len(result.top_risk_factors)
                  IN  /\ n = Min(5, Len(supplied))
                      /\ result.top_risk_factors = SubSeq(supplied, 1, n))

\* the explanation call raised, and the transaction was declined on its score
\* and counted
C27_Witness ==
    /\ call.op = "detect_fraud"
    /\ call.explain.kind = "raises"
    /\ result.path = "normal"
    /\ result.decision = "decline"
    /\ result.top_risk_factors = <<>>
    /\ total_transactions = 1
    /\ Len(processing_times) = 1
    /\ Len(HistoryOf(user_transaction_history, call.transaction.user_id)) = 1

\* C28: a successful detect_fraud call for a transaction of user u appends one
\* entry, the transaction's amount, timestamp and merchant id, at the end of
\* u's window (a full window losing its oldest entry) and leaves the other
\* users' windows, the merchant statistics and the thresholds as they were;
\* a user has a window exactly from the first recorded transaction on, and no
\* window is ever removed.
C28_OneEntryForOneUser ==
    /\ [][ (DetectFraudStep /\ result'.path = "normal") =>
              LET txn == call'.transaction
                  old == HistoryOf(user_transaction_history, txn.user_id)
                  new == HistoryOf(user_transaction_history', txn.user_id)
              IN  /\ Len(new) = Min(100, Len(old) + 1)
                  /\ new[Len(new)] = HistoryEntry(txn)
                  /\ \A i \in 1 .. Len(new) - 1 :
                        new[i] = old[Len(old) + 1 - Len(new) + i]
                  /\ \A u \in DOMAIN user_transaction_history' \ {txn.user_id} :
                        /\ u \in DOMAIN user_transaction_history
                        /\ user_transaction_history'[u] = user_transaction_history[u]
                  /\ merchant_statistics' = merchant_statistics
                  /\ high_risk_threshold' = high_risk_threshold
                  /\ medium_risk_threshold' = medium_risk_threshold ]_vars
    /\ [][ DOMAIN user_transaction_history
               \subseteq DOMAIN user_transaction_history' ]_vars
    /\ [] (\A u \in Users :
              u \in DOMAIN user_transaction_history <=> arrivals[u] # <<>>)

\* a scored call for a user whose window was full: the window still has 100
\* entries, the last is the call's transaction, and the other user's window is
\* there as well
C28_Witness ==
    /\ call.op = "detect_fraud"
    /\ result.path = "normal"
    /\ Len(arrivals[call.transaction.user_id]) = 101
    /\ Len(user_transaction_history[call.transaction.user_id]) = 100
    /\ user_transaction_history[call.transaction.user_id][100]
           = HistoryEntry(call.transaction)
    /\ DOMAIN user_transaction_history = Users

-----------------------------------------------------------------------------
(* POST /detect/fraud (src/src/api/main.py), for a caller who holds the      *)
(* permission. The engine variables are those of the detector that served   *)
(* the latest request; arrivals and recorded go on across detectors. The    *)
(* database and the monitor the endpoint reports to are not modelled.       *)

ApiCalls == 5           \* operations per behaviour of SpecApi

\* one request: the transaction is stamped with datetime.now() = clock, the
\* active model is looked up, a detector is built for it and asked
DetectFraudEndpoint(transaction_req, clock, proba, explain, elapsed) ==
    LET transaction == [transaction_req EXCEPT !.timestamp = clock]
        model == get_model(RegistryNow, None)
        detector == [ user_transaction_history |-> <<>>,
                      total_transactions |-> 0,
                      total_fraud_detected |-> 0,
                      processing_times |-> <<>>,
                      arrivals |-> arrivals,
                      recorded |-> recorded ]
        after == IF DOMAIN model = {}
                 THEN [ engine |-> EngineNow, result |-> result ]
                 ELSE detect_fraud(detector, DefaultHigh, DefaultMedium,
                                   transaction, proba, explain, model.version,
                                   elapsed)
    IN  /\ calls' = calls + 1
        /\ now' = clock
        /\ call' = [ op |-> "detect_fraud_endpoint", transaction |-> transaction,
                     proba |-> proba,
                     user_transaction_count |->
                         extract_user_features(detector.user_transaction_history,
                                               transaction).user_transaction_count ]
        /\ returned' = IF DOMAIN model = {}
                       THEN Raise("HTTPException 503")
                       ELSE after.result
        /\ result' = after.result
        /\ high_risk_threshold' =
               IF DOMAIN model = {} THEN high_risk_threshold ELSE DefaultHigh
        /\ medium_risk_threshold' =
               IF DOMAIN model = {} THEN medium_risk_threshold ELSE DefaultMedium
        /\ processing_times' = after.engine.processing_times
        /\ recorded' = after.engine.recorded
        /\ total_transactions' = after.engine.total_transactions
        /\ total_fraud_detected' = after.engine.total_fraud_detected
        /\ user_transaction_history' = after.engine.user_transaction_history
        /\ arrivals' = after.engine.arrivals
        /\ UNCHANGED <<managers, merchant_statistics, batch,
                       threshold, feedback_history, deque_ids, task>>

DetectFraudRequest ==
    /\ calls < ApiCalls
    /\ \E u \in Users, proba \in { [kind |-> "proba", value |-> 0],
                                   [kind |-> "raises", value |-> 0] } :
          DetectFraudEndpoint(StreamTransaction(u, Len(arrivals[u])), now + 1,
                              proba, [kind |-> "empty", top_features |-> <<>>], 1)

NextApi == RegisterModel \/ DetectFraudRequest

SpecApi == InitDefault /\ [][NextApi]_vars

\* C29 as stated: a scored request for user u sees in u's window every earlier
\* scored request for u: its user_transaction_count is the number of those
\* requests, up to 100.
C29_HistoryAccumulatesAcrossRequests ==
    (/\ call.op = "detect_fraud_endpoint"
     /\ ~Raises(returned)
     /\ result.path = "normal") =>
        call.user_transaction_count
            = Min(100, Len(arrivals[call.transaction.user_id]) - 1)

-----------------------------------------------------------------------------
(* get_performance_metrics *)

\* C30: under sequential calls the latency buffer holds min(1000,
\* total_transactions) samples and 0 <= total_fraud_detected <=
\* total_transactions; get_performance_metrics divides by max(total, 1), which
\* is never zero, reports a fraud_rate within [0, 1], and returns the form
\* without latency statistics (fraud_rate 0.0) exactly when total_transactions
\* is 0.
C30_MetricsWellDefined ==
    /\ Len(processing_times) = Min(1000, total_transactions)
    /\ 0 <= total_fraud_detected
    /\ total_fraud_detected <= total_transactions
    /\ (call.op = "get_performance_metrics") =>
           LET no_samples == DOMAIN returned = {"total_transactions",
                                                "total_fraud_detected",
                                                "fraud_rate"}
               rate == returned.fraud_rate
           IN  /\ no_samples <=> total_transactions = 0
               /\ no_samples => rate = Frac(0, 1)
               /\ ~no_samples =>
                      /\ returned.avg_processing_time_ms.processing_times # <<>>
                      /\ rate = Frac(total_fraud_detected, total_transactions)
               /\ rate.den > 0
               /\ 0 <= rate.num
               /\ rate.num <= rate.den
               /\ returned.total_transactions = total_transactions
               /\ returned.total_fraud_detected = total_fraud_detected

\* the metrics of an engine that has counted more than 1000 transactions: 1000
\* samples in the buffer and a fraud rate strictly between 0 and 1
C30_Witness ==
    /\ call.op = "get_performance_metrics"
    /\ total_transactions > 1000
    /\ Len(processing_times) = 1000
    /\ Len(returned.p95_processing_time_ms.processing_times) = 1000
    /\ 0 < returned.fraud_rate.num
    /\ returned.fraud_rate.num < returned.fraud_rate.den

====
